---- MODULE Spec2Model ----
(***************************************************************************)
(* Model of the ir-toolkit collector: the workflow engine                  *)
(* (workflow/src/runner.rs, workflow/src/handler.rs), the part of the      *)
(* config validator that constrains workflow steps                         *)
(* (config/src/workflow.rs), the evidence sink (storage/src/lib.rs) and    *)
(* the in-place hybrid encryption (crypto/src/lib.rs).                     *)
(***************************************************************************)
EXTENDS Integers, Sequences, FiniteSets, TLC

VARIABLES
    \* ---- workflow engine (Workflow, WorkflowHandler) ----
    runner,        \* Workflow.runner: [actions, workflow] after validate
    current_step,  \* Workflow.current_step (0-based)
    futures,       \* the FuturesUnordered of run, in push order
    completed,     \* indices of futures whose output is ready, completion order
    pc,            \* "loop" | "drain" | "ok" | "err" : position of run
    err_msg,       \* error returned by run ("" when none)
    visited,       \* step indices dispatched by the step loop, in order
    started,       \* step indices whose action began executing, in order
    last,          \* the ActionResult handled last, with its step
    keypresses,    \* number of wait_for_user_input calls
    triggered,     \* some handled result took the goto or the abort arm
    finish_called  \* WorkflowHandler::run called fp.finish()

wfVars == <<runner, current_step, futures, completed, pc, err_msg,
            visited, started, last, keypresses, triggered, finish_called>>

VARIABLES
    \* ---- evidence sink (FileProcessor) and the report directory ----
    fp,            \* FileProcessor: public_key, zip_writer, report_settings, added_files
    zip_entries,   \* entries written to report.zip (name, content), in order
    zip_layers,    \* how many times report.zip was encrypted in place
    csv_rows,      \* rows written to metadata.csv, in order
    csv_buffer,    \* rows serialized into the CSV writer and not yet flushed to the file
    disk,          \* source files: path -> content, or Absent
    stored_dir,    \* <report>/stored_files/ when archiving is off: name -> content
    sidecar,       \* encryption.json, or NoSidecar
    calls,         \* counters: store calls, store calls that returned Ok, finish calls
    stored_ok,     \* path checksums whose store returned Ok
    last_call      \* the last call on the sink: operation, argument, result

sinkVars == <<fp, zip_entries, zip_layers, csv_rows, csv_buffer, disk, stored_dir, sidecar,
              calls, stored_ok, last_call>>

VARIABLES
    \* ---- in-place encryption and decryption of one evidence file ----
    cpc,           \* "idle", "plain", "enc_loop", "encrypted", "dec_loop", "decrypted",
                   \* "enc_failed", "dec_failed"
    cfile,         \* the bytes of the file (report.zip)
    original,      \* the bytes the file held before encrypt_evidence
    keypair,       \* ids of the public key used to encrypt and the private key used to decrypt
    cipher_alg,    \* the Algorithm passed to encrypt_evidence
    sym_key,       \* the local variable key: the symmetric key of the running function
    crypter,       \* the openssl Crypter: mode, key, iv, bytes processed, ciphertext seen
    cursor,        \* offset of the file handle
    position,      \* the local variable position
    buffer,        \* the local variable buffer
    meta,          \* EncryptionMeta: algorithm, encrypted_key, iv, tag
    cret           \* result of the last crypto call

cryptoVars == <<cpc, cfile, original, keypair, cipher_alg, sym_key, crypter, cursor,
                position, buffer, meta, cret>>

VARIABLES
    \* ---- one run of the unpacker on a report directory ----
    upc,           \* "idle", "ready" (report produced, unpacker not yet run), "done"
    tampers,       \* writes made to the report by a third party after encryption
    out_dir,       \* the files of the output directory: path and content
    outside,       \* paths created outside <output>/stored_files/ by restore
    uret,          \* the result of run
    run_log        \* one record per run so far: whether it called decrypt_evidence,
                   \* what that call returned, whether the archive was extracted

unpackVars == <<upc, tampers, out_dir, outside, uret, run_log>>

\* config/src/workflow.rs: a WorkflowRunner read from a workflow file and the
\* calls of validate on it
VARIABLES
    vrunner,       \* the WorkflowRunner
    vbefore,       \* the WorkflowRunner as it was before the last call of validate
    vconflicts,    \* the conflicts the last call collected
    vret,          \* what the last call returned
    vcalls         \* calls of validate so far

validateVars == <<vrunner, vbefore, vconflicts, vret, vcalls>>

\* actions/src/binary.rs, command.rs: one run of a binary or command action
\* and the processes it leaves
VARIABLES
    ppc,           \* "idle", "waiting" (inside timeout(..)/child.wait()), "done"
    pkind,         \* "binary" or "command"
    poptions,      \* ActionOptions: timeout, parallel
    clock,         \* seconds since the spawn
    procs,         \* the spawned process (1) and its descendants
    presult,       \* the ActionResult returned
    pexit_code     \* its exit_code

processVars == <<ppc, pkind, poptions, clock, procs, presult, pexit_code>>

\* actions/src/yara.rs: one run of a YARA action
VARIABLES
    ypc,           \* "idle", "ready" (action configured, not yet run), "done"
    yscan,         \* the attributes read by run and what the scans will yield
    scan_results,  \* the rows collected from the rule batches
    forwarded,     \* the paths handed to file_processor.store, in order
    yret           \* the ActionResult returned

yaraVars == <<ypc, yscan, scan_results, forwarded, yret>>

\* report/src/lib.rs: a Report and its two working directories
VARIABLES
    rpc,           \* "idle", "live" (Report::new returned), "dropped"
    report,        \* the Report: archive_enabled
    rfs,           \* loot_files/ and action_output/: Absent or the set of entries
    rdrop          \* what drop found: the directories before it, the I/O outcomes

reportVars == <<rpc, report, rfs, rdrop>>

\* workflow/src/handler.rs: one call of WorkflowHandler::run
VARIABLES
    hpc,           \* "loop" (inside the for loop), "returned", "panicked"
    hfiles         \* self.workflow_files: what became of each file so far

handlerVars == <<hpc, hfiles>>

vars == <<wfVars, sinkVars, cryptoVars, unpackVars, validateVars, processVars, yaraVars,
          reportVars, handlerVars>>

-----------------------------------------------------------------------------
(* Bounds                                                                  *)

MaxSteps == 2
MaxVisits == 4
MaxGotoVisits == 5    \* visits followed in the three-step goto workflows
MaxStoreCalls == 3
MaxFinishCalls == 2
MaxLen == 4          \* longest file given to encrypt_evidence
MaxItems == 2        \* steps of a workflow file given to validate
MaxValidateCalls == 2  \* calls of validate on one WorkflowRunner
MaxProcs == 3        \* the spawned process and its descendants
MaxClock == 3        \* seconds a run is followed
MaxBatches == 2      \* batches of rule files a YARA action compiles
MaxMatches == 1      \* matches one batch of rules finds in one file
MaxEntries == 2      \* files in loot_files/ and in action_output/
MaxTampers == 1      \* writes a third party makes to a report before it is unpacked
MaxRuns == 2         \* runs of the unpacker on one report directory
MaxTrailing == 1     \* bytes a finalize of the Crypter may hand back
MaxFiles == 2        \* workflow files found by the handler
BlockSize == 2       \* Algorithm::block_size, scaled down from 4096 * 4

-----------------------------------------------------------------------------
(* storage/src/lib.rs, report/src/lib.rs: the sink and the report directory *)

Absent == "absent"

LOOT_DIR == "loot_files"
STORAGE_DIR == "stored_files"
ACTION_LOG_DIR == "action_output"
METADATA_PATH == "metadata.csv"

\* Reporting, as far as the sink reads it.
Reporting(archive, encryption, algorithm, checksums) ==
    [zip_archive |-> [enabled |-> archive,
                      encryption |-> [enabled |-> encryption, algorithm |-> algorithm]],
     metadata |-> [checksums |-> checksums]]

\* FileProcessor::new followed by set_report_settings (which opens the ZIP
\* writer when archiving is enabled) and optionally set_public_key.
NewFileProcessor(settings, key) ==
    [public_key |-> key,
     zip_writer |-> IF settings.zip_archive.enabled THEN "open" ELSE "none",
     report_settings |-> settings,
     added_files |-> {}]

NoCall == [op |-> "none", path |-> "", ret |-> "Ok", remove_failed |-> FALSE]

\* encryption.json not written
NoSidecar == [algorithm |-> "absent", encrypted_key |-> <<>>, iv |-> <<>>, tag |-> <<>>]

\* The sink variables while no sink is being exercised.
IdleSink ==
    /\ fp = NewFileProcessor(Reporting(FALSE, FALSE, "None", FALSE), "none")
    /\ zip_entries = <<>>
    /\ zip_layers = 0
    /\ csv_rows = <<>>
    /\ csv_buffer = <<>>
    /\ disk = <<>>
    /\ stored_dir = <<>>
    /\ sidecar = NoSidecar
    /\ calls = [store |-> 0, store_ok |-> 0, finish |-> 0]
    /\ stored_ok = {}
    /\ last_call = NoCall

-----------------------------------------------------------------------------------------------------------------------------------------------------
(* crypto/src/lib.rs: values of the encryption state                       *)

NoCrypter == [mode |-> "none", key |-> <<>>, iv |-> <<>>, n |-> 0, seen |-> <<>>]

NoMeta == [algorithm |-> "None", encrypted_key |-> <<>>, iv |-> <<>>, tag |-> <<>>]

NoKeyPair == [public |-> 0, private |-> 0]

\* The crypto variables while no file is being encrypted.
IdleCrypto ==
    /\ cpc = "idle"
    /\ cfile = <<>>
    /\ original = <<>>
    /\ keypair = NoKeyPair
    /\ cipher_alg = "None"
    /\ sym_key = <<>>
    /\ crypter = NoCrypter
    /\ cursor = 0
    /\ position = 0
    /\ buffer = <<>>
    /\ meta = NoMeta
    /\ cret = "none"

\* The unpacker variables while no unpacker is run.
IdleUnpack ==
    /\ upc = "idle"
    /\ tampers = 0
    /\ out_dir = {}
    /\ outside = {}
    /\ uret = "none"
    /\ run_log = <<>>

\* No workflow file is being read.
NoRunner ==
    [properties |-> {},
     launch_conditions |-> [custom_command |-> [some |-> FALSE, contains_any |-> FALSE,
                                                contains_all |-> FALSE, contains_regex |-> FALSE]],
     actions |-> <<>>,
     workflow |-> <<>>,
     reporting |-> [zip_archive |-> [enabled |-> FALSE,
                                     encryption |-> [enabled |-> FALSE, algorithm |-> "None"],
                                     compression |-> [enabled |-> FALSE]]]]

IdleValidate ==
    /\ vrunner = NoRunner
    /\ vbefore = NoRunner
    /\ vconflicts = <<>>
    /\ vret = "none"
    /\ vcalls = 0

\* No process slot is used.
NoProcess == [state |-> "none", group |-> "none", code |-> 0]

NoResult == [success |-> TRUE, parallel |-> FALSE, finished |-> FALSE, error_message |-> ""]

IdleProcess ==
    /\ ppc = "idle"
    /\ pkind = "binary"
    /\ poptions = [timeout |-> 0, parallel |-> FALSE]
    /\ clock = 0
    /\ procs = [p \in 1..MaxProcs |-> NoProcess]
    /\ presult = NoResult
    /\ pexit_code = 0

IdleYara ==
    /\ ypc = "idle"
    /\ yscan = [store_on_match |-> FALSE, created |-> TRUE, files_to_scan |-> <<>>, rules |-> <<>>]
    /\ scan_results = <<>>
    /\ forwarded = <<>>
    /\ yret = NoResult

IdleReport ==
    /\ rpc = "idle"
    /\ report = [archive_enabled |-> FALSE]
    /\ rfs = [d \in {"loot_files", "action_output"} |-> [exists |-> FALSE, entries |-> {}]]
    /\ rdrop = [before |-> rfs, failed |-> {}]

IdleHandler ==
    /\ hpc = "loop"
    /\ hfiles = <<>>

-----
(* config/src/workflow.rs: data model                                      *)

Continue == [kind |-> "continue", goto |-> ""]
Abort == [kind |-> "abort", goto |-> ""]
Goto(name) == [kind |-> "goto", goto |-> name]

parallel_action_types == {"binary", "command", "terminal"}
timeout_action_types == {"binary", "command"}

WorkflowItem(a, oe, p, t, k) ==
    [action |-> a, on_error |-> oe, parallel |-> p, timeout |-> t,
     continue_after_keypress |-> k]

\* The action table of the workflow files explored by the engine model.
RawActions ==
    << [name |-> "a", action_type |-> "binary",
        attributes |-> [variant |-> "binary", log_to_file |-> FALSE]],
       [name |-> "c", action_type |-> "command",
        attributes |-> [variant |-> "command", log_to_file |-> FALSE]],
       [name |-> "t", action_type |-> "terminal",
        attributes |-> [variant |-> "terminal", wait |-> TRUE,
                        separate_window |-> TRUE, enable_transcript |-> FALSE]],
       [name |-> "s", action_type |-> "store",
        attributes |-> [variant |-> "store"]] >>

\* Raw (unvalidated) workflow steps the explored workflow files are built of.
OnErrors == {Continue, Abort, Goto("a"), Goto("s"), Goto("z")}

RawSteps ==
    \* sequential steps on the binary action "a", every error policy
    { WorkflowItem("a", oe, FALSE, 0, FALSE) : oe \in OnErrors }
    \cup { WorkflowItem("a", oe, FALSE, 0, TRUE) : oe \in {Continue, Goto("a")} }
    \* a store step (never fails) and a step on an undefined action
    \cup { WorkflowItem("s", Continue, FALSE, 0, FALSE),
           WorkflowItem("z", Continue, FALSE, 0, FALSE) }
    \* parallel steps as written in the workflow file
    \cup { WorkflowItem("a", Continue, TRUE, 0, FALSE),
           WorkflowItem("a", Abort, TRUE, 1, TRUE),
           WorkflowItem("t", Goto("a"), TRUE, 0, FALSE) }

RECURSIVE SeqsUpTo(_, _)
SeqsUpTo(S, n) ==
    IF n = 0 THEN {<<>>}
    ELSE LET shorter == SeqsUpTo(S, n - 1)
         IN  shorter \cup { Append(w, x) : w \in {v \in shorter : Len(v) = n - 1}, x \in S }

RawWorkflows == { w \in SeqsUpTo(RawSteps, MaxSteps) : Len(w) >= 1 }

\* Three-step workflow files A, B, C in which B jumps back on error: A runs
\* the binary "a", B the command "c" with on_error = goto("a") or goto("c"),
\* C the store action "s".
GotoWorkflows ==
    { << WorkflowItem("a", oe, FALSE, 0, ka),
         WorkflowItem("c", Goto(target), FALSE, 0, kb),
         WorkflowItem("s", Continue, FALSE, 0, FALSE) >> :
      oe \in {Continue, Abort}, target \in {"a", "c"}, ka \in BOOLEAN, kb \in BOOLEAN }

-----------------------------------------------------------------------------
(* config/src/workflow.rs: WorkflowRunner::validate, workflow section      *)

\* conflicts.push(..) when the condition holds
Conflict(cond, text) == IF cond THEN <<text>> ELSE <<>>

\* ValidateItemAgainst without the last repair (on_error is left as written).
ValidateItemAgainst_KeepsOnError(item, action) ==
    LET c1 == item.parallel /\ action.action_type \notin parallel_action_types
        i1 == IF c1 THEN [item EXCEPT !.parallel = FALSE] ELSE item
        c2 == i1.timeout > 0 /\ action.action_type \notin timeout_action_types
        i2 == IF c2 THEN [i1 EXCEPT !.timeout = 0] ELSE i1
        c3 == /\ i2.parallel
              /\ action.attributes.variant \in {"binary", "command"}
              /\ ~action.attributes.log_to_file
        a3 == IF c3 THEN [action EXCEPT !.attributes.log_to_file = TRUE] ELSE action
        c4 == /\ i2.parallel
              /\ action.attributes.variant = "terminal"
              /\ ~action.attributes.separate_window
        i3 == IF c4 THEN [i2 EXCEPT !.parallel = FALSE] ELSE i2
    IN  [item |-> i3, action |-> a3,
         conflicts |-> Conflict(c1, "not allowed to run in parallel")
                       \o Conflict(c2, "not allowed to have a timeout")
                       \o Conflict(c3, "log_to_file is disabled")
                       \o Conflict(c4, "uses integrated terminal")]

\* Body of the inner loop of validate (lines 651-694) for one step and one
\* action whose name matches the step.
ValidateItemAgainst(item, action) ==
    LET c1 == item.parallel /\ action.action_type \notin parallel_action_types
        i1 == IF c1 THEN [item EXCEPT !.parallel = FALSE] ELSE item
        c2 == i1.timeout > 0 /\ action.action_type \notin timeout_action_types
        i2 == IF c2 THEN [i1 EXCEPT !.timeout = 0] ELSE i1
        c3 == /\ i2.parallel
              /\ action.attributes.variant \in {"binary", "command"}
              /\ ~action.attributes.log_to_file
        a3 == IF c3 THEN [action EXCEPT !.attributes.log_to_file = TRUE] ELSE action
        c4 == /\ i2.parallel
              /\ action.attributes.variant = "terminal"
              /\ ~action.attributes.separate_window
        i3 == IF c4 THEN [i2 EXCEPT !.parallel = FALSE] ELSE i2
        c5 == i3.parallel /\ i3.on_error # Continue
        i4 == IF c5 THEN [i3 EXCEPT !.on_error = Continue] ELSE i3
    IN  [item |-> i4, action |-> a3,
         conflicts |-> Conflict(c1, "not allowed to run in parallel")
                       \o Conflict(c2, "not allowed to have a timeout")
                       \o Conflict(c3, "log_to_file is disabled")
                       \o Conflict(c4, "uses integrated terminal")
                       \o Conflict(c5, "has a custom on_error")]

\* An inner loop that repairs neither the step nor its action.
ValidateItemActions_NoRepair(item, actions, j) ==
    [item |-> item, actions |-> actions, conflicts |-> <<>>]

\* for action in self.actions.iter_mut() { if action.name == item.action ... }
RECURSIVE ValidateItemActions(_, _, _)
ValidateItemActions(item, actions, j) ==
    IF j > Len(actions) THEN [item |-> item, actions |-> actions, conflicts |-> <<>>]
    ELSE IF actions[j].name = item.action
         THEN LET r == ValidateItemAgainst(item, actions[j])
                  rest == ValidateItemActions(r.item, [actions EXCEPT ![j] = r.action], j + 1)
              IN  [rest EXCEPT !.conflicts = r.conflicts \o @]
         ELSE ValidateItemActions(item, actions, j + 1)

\* The iteration without the test of lines 644-648: continue_after_keypress
\* is left as the workflow file has it.
ValidateItem_KeepsKeypress(item, actions) ==
    ValidateItemActions(item, actions, 1)

\* One iteration of `for item in self.workflow.iter_mut()` (lines 643-696).
ValidateItem(item, actions) ==
    LET c0 == item.parallel /\ item.continue_after_keypress
        i0 == IF c0 THEN [item EXCEPT !.continue_after_keypress = FALSE] ELSE item
        r == ValidateItemActions(i0, actions, 1)
    IN  [r EXCEPT !.conflicts = Conflict(c0, "parallel and wait for keypress") \o @]

RECURSIVE ValidateWorkflow(_, _, _)
ValidateWorkflow(workflow, actions, i) ==
    IF i > Len(workflow) THEN [workflow |-> workflow, actions |-> actions, conflicts |-> <<>>]
    ELSE LET r == ValidateItem(workflow[i], actions)
             rest == ValidateWorkflow([workflow EXCEPT ![i] = r.item], r.actions, i + 1)
         IN  [rest EXCEPT !.conflicts = r.conflicts \o @]

-----------------------------------------------------------------------------
(* config/src/workflow.rs: WorkflowRunner::validate                        *)

\* Option<CustomCommand>: which of the three predicates are set
CustomCommand(any, all, regex) ==
    [some |-> TRUE, contains_any |-> any, contains_all |-> all, contains_regex |-> regex]

\* ReportingPolicy: the fields of Reporting validate reads
ReportingPolicy(archive, encryption, algorithm, compression) ==
    [zip_archive |-> [enabled |-> archive,
                      encryption |-> [enabled |-> encryption, algorithm |-> algorithm],
                      compression |-> [enabled |-> compression]]]

\* properties is kept as the set of its keys
WorkflowRunner(properties, custom_command, actions, workflow, reporting) ==
    [properties |-> properties,
     launch_conditions |-> [custom_command |-> custom_command],
     actions |-> actions,
     workflow |-> workflow,
     reporting |-> reporting]

required_properties == <<"title", "version">>

\* the test of the required properties with version left out
ValidateProperties_TitleOnly(properties) ==
    Conflict(required_properties[1] \notin properties, "Properties requires the key (fatal)")

\* lines 550-557
ValidateProperties(properties) ==
    Conflict(required_properties[1] \notin properties, "Properties requires the key (fatal)")
    \o Conflict(required_properties[2] \notin properties, "Properties requires the key (fatal)")

\* lines 559-569
ValidateLaunchConditions(launch_conditions) ==
    LET custom_command == launch_conditions.custom_command
        c == /\ custom_command.some
             /\ ~custom_command.contains_any
             /\ ~custom_command.contains_all
             /\ ~custom_command.contains_regex
    IN  [launch_conditions |->
            IF c THEN [launch_conditions EXCEPT !.custom_command = NoRunner.launch_conditions.custom_command]
            ELSE launch_conditions,
         conflicts |-> Conflict(c, "disabling custom_command")]

\* the tests of the reporting policy with the first one made last
ValidateReporting_ArchiveLast(reporting) ==
    LET c2 == /\ ~reporting.zip_archive.encryption.enabled
              /\ reporting.zip_archive.encryption.algorithm # "None"
        r2 == IF c2 THEN [reporting EXCEPT !.zip_archive.encryption.algorithm = "None",
                                           !.zip_archive.encryption.enabled = FALSE]
              ELSE reporting
        c3 == /\ ~r2.zip_archive.encryption.enabled
              /\ r2.zip_archive.compression.enabled
        r3 == IF c3 THEN [r2 EXCEPT !.zip_archive.compression.enabled = FALSE] ELSE r2
        c1 == /\ ~r3.zip_archive.enabled
              /\ \/ r3.zip_archive.encryption.enabled
                 \/ r3.zip_archive.compression.enabled
        r1 == IF c1 THEN [r3 EXCEPT !.zip_archive.encryption.enabled = FALSE,
                                    !.zip_archive.compression.enabled = FALSE]
              ELSE r3
    IN  [reporting |-> r1,
         conflicts |-> Conflict(c2, "disabling encryption")
                       \o Conflict(c3, "disabling compression")
                       \o Conflict(c1, "zip_archive is disabled")]

\* lines 571-605: the second and the third test read encryption.enabled
ValidateReporting(reporting) ==
    LET c1 == /\ ~reporting.zip_archive.enabled
              /\ \/ reporting.zip_archive.encryption.enabled
                 \/ reporting.zip_archive.compression.enabled
        r1 == IF c1 THEN [reporting EXCEPT !.zip_archive.encryption.enabled = FALSE,
                                           !.zip_archive.compression.enabled = FALSE]
              ELSE reporting
        c2 == /\ ~r1.zip_archive.encryption.enabled
              /\ r1.zip_archive.encryption.algorithm # "None"
        r2 == IF c2 THEN [r1 EXCEPT !.zip_archive.encryption.algorithm = "None",
                                    !.zip_archive.encryption.enabled = FALSE]
              ELSE r1
        c3 == /\ ~r2.zip_archive.encryption.enabled
              /\ r2.zip_archive.compression.enabled
        r3 == IF c3 THEN [r2 EXCEPT !.zip_archive.compression.enabled = FALSE] ELSE r2
    IN  [reporting |-> r3,
         conflicts |-> Conflict(c1, "zip_archive is disabled")
                       \o Conflict(c2, "disabling encryption")
                       \o Conflict(c3, "disabling compression")]

\* lines 610-630: the repairs of a terminal action
ValidateAction(action) ==
    IF action.action_type = "terminal" /\ action.attributes.variant = "terminal"
    THEN LET c1 == ~action.attributes.wait /\ ~action.attributes.separate_window
             a1 == IF c1 THEN [action EXCEPT !.attributes.wait = TRUE] ELSE action
             c2 == ~a1.attributes.wait /\ a1.attributes.enable_transcript
             a2 == IF c2 THEN [a1 EXCEPT !.attributes.enable_transcript = FALSE] ELSE a1
         IN  [action |-> a2,
              conflicts |-> Conflict(c1, "setting wait to true")
                            \o Conflict(c2, "Disabling transcript")]
    ELSE [action |-> action, conflicts |-> <<>>]

\* lines 608-640: for action in self.actions.iter_mut(), with the names seen
RECURSIVE ValidateActions(_, _, _)
ValidateActions(actions, j, action_names) ==
    IF j > Len(actions) THEN [actions |-> actions, conflicts |-> <<>>, fatal |-> FALSE]
    ELSE LET r == ValidateAction(actions[j])
             duplicate == actions[j].name \in action_names
             rest == ValidateActions([actions EXCEPT ![j] = r.action], j + 1,
                                     action_names \cup {actions[j].name})
         IN  [actions |-> rest.actions,
              conflicts |-> r.conflicts \o Conflict(duplicate, "Duplicate action name (fatal)")
                            \o rest.conflicts,
              fatal |-> duplicate \/ rest.fatal]

\* validate without the tests of the reporting policy
validate_KeepsReporting(self) ==
    LET p == ValidateProperties(self.properties)
        l == ValidateLaunchConditions(self.launch_conditions)
        a == ValidateActions(self.actions, 1, {})
        w == ValidateWorkflow(self.workflow, a.actions, 1)
        fatal == p # <<>> \/ a.fatal
    IN  [runner |-> [properties |-> self.properties,
                     launch_conditions |-> l.launch_conditions,
                     actions |-> w.actions,
                     workflow |-> w.workflow,
                     reporting |-> self.reporting],
         conflicts |-> p \o l.conflicts \o a.conflicts \o w.conflicts,
         ret |-> IF fatal THEN "Fatal conflicts found in workflow" ELSE "Ok"]

\* WorkflowRunner::validate: the runner afterwards, the conflicts and the
\* result
validate(self) ==
    LET p == ValidateProperties(self.properties)
        l == ValidateLaunchConditions(self.launch_conditions)
        r == ValidateReporting(self.reporting)
        a == ValidateActions(self.actions, 1, {})
        w == ValidateWorkflow(self.workflow, a.actions, 1)
        fatal == p # <<>> \/ a.fatal
    IN  [runner |-> [properties |-> self.properties,
                     launch_conditions |-> l.launch_conditions,
                     actions |-> w.actions,
                     workflow |-> w.workflow,
                     reporting |-> r.reporting],
         conflicts |-> p \o l.conflicts \o r.conflicts \o a.conflicts \o w.conflicts,
         ret |-> IF fatal THEN "Fatal conflicts found in workflow" ELSE "Ok"]

\* One call of validate on the runner (read_workflow_file makes the first).
RunValidate ==
    /\ vcalls < MaxValidateCalls
    /\ LET v == validate(vrunner)
       IN  /\ vbefore' = vrunner
           /\ vrunner' = v.runner
           /\ vconflicts' = v.conflicts
           /\ vret' = v.ret
    /\ vcalls' = vcalls + 1
    /\ UNCHANGED <<wfVars, sinkVars, cryptoVars, unpackVars, processVars, yaraVars, reportVars, handlerVars>>

\* The workflow files read: what serde accepts, valid or not.
PropertyKeys == SUBSET {"title", "version"}

CustomCommands ==
    { NoRunner.launch_conditions.custom_command,
      CustomCommand(FALSE, FALSE, FALSE),
      CustomCommand(TRUE, FALSE, FALSE),
      CustomCommand(FALSE, FALSE, TRUE) }

ReportingPolicies ==
    { ReportingPolicy(archive, encryption, algorithm, compression) :
        archive \in BOOLEAN, encryption \in BOOLEAN,
        algorithm \in {"None", "AES-128-GCM"}, compression \in BOOLEAN }

BinaryAction(name, log_to_file) ==
    [name |-> name, action_type |-> "binary",
     attributes |-> [variant |-> "binary", log_to_file |-> log_to_file]]

CommandAction(name, log_to_file) ==
    [name |-> name, action_type |-> "command",
     attributes |-> [variant |-> "command", log_to_file |-> log_to_file]]

TerminalAction(name, wait, separate_window, enable_transcript) ==
    [name |-> name, action_type |-> "terminal",
     attributes |-> [variant |-> "terminal", wait |-> wait,
                     separate_window |-> separate_window,
                     enable_transcript |-> enable_transcript]]

StoreAction(name) == [name |-> name, action_type |-> "store", attributes |-> [variant |-> "store"]]

ActionLists ==
    { << BinaryAction("a", log_to_file), CommandAction("c", FALSE),
         TerminalAction("t", wait, separate_window, enable_transcript), StoreAction("s") >> :
        log_to_file \in BOOLEAN, wait \in BOOLEAN, separate_window \in BOOLEAN,
        enable_transcript \in BOOLEAN }
    \cup { << BinaryAction("a", TRUE), StoreAction("s"), CommandAction("a", TRUE) >> }

\* the steps: on each action name, "z" being the name of no action, one step
\* with every conflict, one parallel step without, one sequential step
Items ==
    { WorkflowItem(name, Abort, TRUE, 1, TRUE) : name \in {"a", "c", "t", "s", "z"} }
    \cup { WorkflowItem(name, Continue, TRUE, 0, FALSE) : name \in {"a", "c", "t", "s", "z"} }
    \cup { WorkflowItem(name, Abort, FALSE, 1, TRUE) : name \in {"a", "c", "t", "s", "z"} }

Workflows == { w \in SeqsUpTo(Items, MaxItems) : Len(w) >= 1 }

ValidProperties == {"title", "version"}
ValidReporting == ReportingPolicy(TRUE, TRUE, "AES-128-GCM", TRUE)
ValidActions == << BinaryAction("a", TRUE), CommandAction("c", TRUE),
                   TerminalAction("t", TRUE, TRUE, FALSE), StoreAction("s") >>
ValidWorkflow == << WorkflowItem("a", Continue, TRUE, 0, FALSE) >>

\* every head with two bodies, every body with two heads
RawRunners ==
    { WorkflowRunner(properties, custom_command, actions, ValidWorkflow, reporting) :
        properties \in PropertyKeys, custom_command \in CustomCommands,
        actions \in {ValidActions, << BinaryAction("a", TRUE), BinaryAction("a", TRUE) >>},
        reporting \in ReportingPolicies }
    \cup { WorkflowRunner(properties, CustomCommand(TRUE, FALSE, FALSE), actions, workflow,
                          ValidReporting) :
            properties \in {ValidProperties, {"title"}}, actions \in ActionLists,
            workflow \in Workflows }

\* ActionAttributes is an untagged enum: serde takes the first variant whose
\* required fields the attributes mapping holds (path, cmd, patterns, wait,
\* rules_paths and files_to_scan), whatever the type tag of the action says.
ActionTypes == {"binary", "command", "store", "terminal", "yara"}

AttributesOf(variant) ==
    IF variant \in {"binary", "command"} THEN [variant |-> variant, log_to_file |-> TRUE]
    ELSE IF variant = "terminal"
    THEN [variant |-> variant, wait |-> TRUE, separate_window |-> TRUE,
          enable_transcript |-> FALSE]
    ELSE [variant |-> variant]

TaggedAction(name, action_type, variant) ==
    [name |-> name, action_type |-> action_type, attributes |-> AttributesOf(variant)]

\* workflow files of one action and one step on it, with every type tag and
\* every attributes mapping
TaggedRunners ==
    { WorkflowRunner(properties, CustomCommand(TRUE, FALSE, FALSE),
                     << TaggedAction("a", action_type, variant) >>, << item >>,
                     ValidReporting) :
        properties \in {ValidProperties, {"title"}},
        action_type \in ActionTypes, variant \in ActionTypes,
        item \in { WorkflowItem("a", Continue, parallel, 0, FALSE) : parallel \in BOOLEAN } }

\* impl Into<BinaryAttributes> for ActionAttributes and its four siblings, as
\* called in the arm of the action's type tag: any other variant panics.
Converts(action) == action.attributes.variant = action.action_type

-----------------------------------------------------------------------------
(* actions/src/lib.rs: ActionResult and its constructors                   *)

ActionResult(s, p, f, m) ==
    [success |-> s, parallel |-> p, finished |-> f, error_message |-> m]

\* error_result!: note parallel: false whatever the options were
error_result(msg) == ActionResult(FALSE, FALSE, TRUE, msg)

\* waiting_result!
waiting_result == ActionResult(TRUE, TRUE, FALSE, "")

ActionOptions(item) == [timeout |-> item.timeout, parallel |-> item.parallel]

\* The results an action runner can return, by action type.
\* Binary::run / ShellCommand::run: missing file, bad cwd, spawn or wait
\* failure and timeout go through error_result!; an exited process reports
\* its status with parallel = options.parallel.
ProcessResults(options, timeout_msg) ==
    { error_result("spawn failed") }
    \cup (IF options.timeout > 0 THEN { error_result(timeout_msg) } ELSE {})
    \cup { ActionResult(TRUE, options.parallel, TRUE, ""),
           ActionResult(FALSE, options.parallel, TRUE, "Process failed") }

RunResults(action_type, options) ==
    CASE action_type = "binary" -> ProcessResults(options, "Process timed out")
      [] action_type = "command" -> ProcessResults(options, "Command timed out")
      [] action_type = "terminal" ->
            { error_result("spawn failed"),
              ActionResult(TRUE, options.parallel, TRUE, ""),
              ActionResult(FALSE, options.parallel, TRUE, "Terminal failed") }
      [] action_type = "store" -> { ActionResult(TRUE, FALSE, TRUE, "") }
      [] action_type = "yara" ->
            { error_result("No rules provided"), ActionResult(TRUE, FALSE, TRUE, "") }

-----------------------------------------------------------------------------
(* workflow/src/runner.rs                                                  *)

\* self.runner.actions.iter_mut().find(|action| action.name == name):
\* index of the first action of that name, 0 when there is none.
FindAction(actions, name) ==
    LET hits == { j \in 1..Len(actions) : actions[j].name = name }
    IN  IF hits = {} THEN 0 ELSE CHOOSE j \in hits : \A k \in hits : j <= k

\* Position searching from the end (rposition).
PositionLast(workflow, name) ==
    LET hits == { j \in 1..Len(workflow) : workflow[j].action = name }
    IN  IF hits = {} THEN -1 ELSE (CHOOSE j \in hits : \A k \in hits : j >= k) - 1

\* self.runner.workflow.iter().position(|step| step.action == *goto):
\* 0-based index of the first step on that action, -1 for None.
Position(workflow, name) ==
    LET hits == { j \in 1..Len(workflow) : workflow[j].action = name }
    IN  IF hits = {} THEN -1 ELSE (CHOOSE j \in hits : \A k \in hits : j <= k) - 1

HandleOutcome(cs, ret, key) == [current_step |-> cs, ret |-> ret, keypress |-> key]

\* Workflow::handle_result with the abort arm advancing instead of returning
handle_result_no_abort(cs, result, item, workflow) ==
    IF ~result.finished THEN HandleOutcome(cs + 1, "Ok", FALSE)
    ELSE IF result.parallel THEN HandleOutcome(cs + 1, "Ok", FALSE)
    ELSE IF result.success
         THEN HandleOutcome(cs + 1, "Ok", item.continue_after_keypress)
    ELSE IF item.on_error.kind = "goto"
         THEN LET index == Position(workflow, item.on_error.goto)
              IN  IF index >= 0
                  THEN HandleOutcome(index, "Ok", item.continue_after_keypress)
                  ELSE HandleOutcome(cs, "Step not found", FALSE)
    ELSE HandleOutcome(cs + 1, "Ok", item.continue_after_keypress)

\* Workflow::handle_result: the new current_step, the returned Result and
\* whether wait_for_user_input was called.
handle_result(cs, result, item, workflow) ==
    IF ~result.finished THEN HandleOutcome(cs + 1, "Ok", FALSE)
    ELSE IF result.parallel THEN HandleOutcome(cs + 1, "Ok", FALSE)
    ELSE IF result.success
         THEN HandleOutcome(cs + 1, "Ok", item.continue_after_keypress)
    ELSE IF item.on_error.kind = "goto"
         THEN LET index == Position(workflow, item.on_error.goto)
              IN  IF index >= 0
                  THEN HandleOutcome(index, "Ok", item.continue_after_keypress)
                  ELSE HandleOutcome(cs, "Step not found", FALSE)
    ELSE IF item.on_error.kind = "abort"
         THEN HandleOutcome(cs, "Aborting workflow", FALSE)
    ELSE HandleOutcome(cs + 1, "Ok", item.continue_after_keypress)

\* A future of the pool: the cloned step, its index, and how far it got.
\* "pending": pushed, never polled; "running": polled, action in flight;
\* "done": output ready; "handled": output taken by the drain loop;
\* "dropped": the pool was dropped by a return of run before it finished.
Future(item, step, status, result) ==
    [item |-> item, step |-> step, status |-> status, result |-> result]

\* A return of run that leaves the pool as it is.
DropFutures_Leaks(fs) == fs

\* What the return of run does to the pool it owns.
DropFutures(fs) ==
    [i \in 1..Len(fs) |->
        IF fs[i].status \in {"pending", "running", "done"}
        THEN [fs[i] EXCEPT !.status = "dropped"] ELSE fs[i]]

NoLast == [phase |-> "none", step |-> 0, item |-> WorkflowItem("", Continue, FALSE, 0, FALSE),
           result |-> waiting_result, ret |-> "Ok", from |-> 0]

Last(phase, step, item, result, ret, from) ==
    [phase |-> phase, step |-> step, item |-> item, result |-> result,
     ret |-> ret, from |-> from]

\* The result reaches the goto or the abort arm of handle_result.
TakesErrorArm(result, item) ==
    /\ result.finished
    /\ ~result.parallel
    /\ ~result.success
    /\ item.on_error.kind \in {"goto", "abort"}

\* The step loop itself counts no visits (runner.rs 46-60); the model follows
\* a run for this many iterations.
VisitLimit ==
    IF runner.workflow \in { ValidateWorkflow(w, RawActions, 1).workflow : w \in GotoWorkflows }
    THEN MaxGotoVisits ELSE MaxVisits

InitWorkflow ==
    /\ \E w \in RawWorkflows :
          LET v == ValidateWorkflow(w, RawActions, 1)
          IN  runner = [actions |-> v.actions, workflow |-> v.workflow]
    /\ current_step = 0
    /\ futures = <<>>
    /\ completed = <<>>
    /\ pc = "loop"
    /\ err_msg = ""
    /\ visited = <<>>
    /\ started = <<>>
    /\ last = NoLast
    /\ keypresses = 0
    /\ triggered = FALSE
    /\ finish_called = FALSE
    /\ IdleSink
    /\ IdleCrypto
    /\ IdleUnpack
    /\ IdleValidate
    /\ IdleProcess
    /\ IdleYara
    /\ IdleReport
    /\ IdleHandler

\* A step loop that gives up after three iterations.
LoopCondition_Bounded(cs, iterations) == cs < Len(runner.workflow) /\ iterations < 3

\* while self.current_step < num_steps: the condition of the step loop, in
\* which the number of iterations made so far plays no part.
LoopCondition(cs, iterations) == cs < Len(runner.workflow)

\* A step loop that goes on with the following step whatever handle_result
\* made of current_step.
AfterLoopHandle_NoJump(hr, fs) ==
    /\ current_step' = IF hr.ret = "Ok" THEN current_step + 1 ELSE current_step
    /\ keypresses' = keypresses + (IF hr.keypress THEN 1 ELSE 0)
    /\ IF hr.ret # "Ok"
       THEN /\ pc' = "err"
            /\ err_msg' = hr.ret
            /\ futures' = DropFutures(fs)
       ELSE /\ pc' = IF current_step + 1 < Len(runner.workflow) THEN "loop"
                     ELSE IF Len(fs) > 0 THEN "drain" ELSE "ok"
            /\ err_msg' = err_msg
            /\ futures' = fs

\* After handle_result in the step loop: return its error, or test the loop
\* condition and either stay in the loop, enter the drain or return Ok.
AfterLoopHandle(hr, fs) ==
    /\ current_step' = hr.current_step
    /\ keypresses' = keypresses + (IF hr.keypress THEN 1 ELSE 0)
    /\ IF hr.ret # "Ok"
       THEN /\ pc' = "err"
            /\ err_msg' = hr.ret
            /\ futures' = DropFutures(fs)
       ELSE /\ pc' = IF LoopCondition(hr.current_step, Len(visited) + 1) THEN "loop"
                     ELSE IF Len(fs) > 0 THEN "drain" ELSE "ok"
            /\ err_msg' = err_msg
            /\ futures' = fs

\* One iteration of the step loop whose action is not defined (lines 49-60).
VisitNotFound ==
    /\ pc = "loop"
    /\ current_step < Len(runner.workflow)
    /\ Len(visited) < VisitLimit
    /\ FindAction(runner.actions, runner.workflow[current_step + 1].action) = 0
    /\ pc' = "err"
    /\ err_msg' = "Action not found"
    /\ futures' = DropFutures(futures)
    /\ UNCHANGED <<sinkVars, cryptoVars, unpackVars, validateVars, processVars, yaraVars, reportVars, handlerVars>>
    /\ UNCHANGED <<runner, current_step, completed, visited, started, last,
                   keypresses, triggered, finish_called>>

\* One iteration of the step loop on a parallel binary, command or terminal
\* step: the future is pushed onto the pool (not polled) and the
\* waiting_result is handled (lines 94-113, 140-156, 189-201, 230-237).
VisitParallel ==
    /\ pc = "loop"
    /\ current_step < Len(runner.workflow)
    /\ Len(visited) < VisitLimit
    /\ LET item == runner.workflow[current_step + 1]
           j == FindAction(runner.actions, item.action)
       IN  /\ j # 0
           /\ ActionOptions(item).parallel
           /\ runner.actions[j].action_type \in {"binary", "command", "terminal"}
           /\ LET fs == Append(futures, Future(item, current_step, "pending", waiting_result))
                  hr == handle_result(current_step, waiting_result, item, runner.workflow)
              IN  /\ AfterLoopHandle(hr, fs)
                  /\ last' = Last("loop", current_step, item, waiting_result, hr.ret, current_step)
           /\ visited' = Append(visited, current_step)
    /\ UNCHANGED <<sinkVars, cryptoVars, unpackVars, validateVars, processVars, yaraVars, reportVars, handlerVars>>
    /\ UNCHANGED <<runner, completed, started, triggered, finish_called>>

\* One iteration of the step loop on a step that runs synchronously:
\* block_on(...) or Store::run / Yara::run, then handle_result.
VisitSequential ==
    /\ pc = "loop"
    /\ current_step < Len(runner.workflow)
    /\ Len(visited) < VisitLimit
    /\ LET item == runner.workflow[current_step + 1]
           j == FindAction(runner.actions, item.action)
       IN  /\ j # 0
           /\ ~(/\ ActionOptions(item).parallel
                /\ runner.actions[j].action_type \in {"binary", "command", "terminal"})
           /\ \E result \in RunResults(runner.actions[j].action_type, ActionOptions(item)) :
                 LET hr == handle_result(current_step, result, item, runner.workflow)
                 IN  /\ AfterLoopHandle(hr, futures)
                     /\ last' = Last("loop", current_step, item, result, hr.ret, current_step)
                     /\ triggered' = (triggered \/ TakesErrorArm(result, item))
           /\ visited' = Append(visited, current_step)
           /\ started' = Append(started, current_step)
    /\ UNCHANGED <<sinkVars, cryptoVars, unpackVars, validateVars, processVars, yaraVars, reportVars, handlerVars>>
    /\ UNCHANGED <<runner, completed, finish_called>>

\* futures.next().await polls a future of the pool for the first time: only
\* now does the async block call the runner and the action start.
PollFuture(i) ==
    /\ pc = "drain"
    /\ futures[i].status = "pending"
    /\ futures' = [futures EXCEPT ![i].status = "running"]
    /\ started' = Append(started, futures[i].step)
    /\ UNCHANGED <<sinkVars, cryptoVars, unpackVars, validateVars, processVars, yaraVars, reportVars, handlerVars>>
    /\ UNCHANGED <<runner, current_step, completed, pc, err_msg, visited, last,
                   keypresses, triggered, finish_called>>

\* The action of a polled future finishes; its output becomes ready.
CompleteFuture(i) ==
    /\ pc = "drain"
    /\ futures[i].status = "running"
    /\ LET item == futures[i].item
           j == FindAction(runner.actions, item.action)
       IN  \E result \in RunResults(runner.actions[j].action_type, ActionOptions(item)) :
              futures' = [futures EXCEPT ![i].status = "done", ![i].result = result]
    /\ completed' = Append(completed, i)
    /\ UNCHANGED <<sinkVars, cryptoVars, unpackVars, validateVars, processVars, yaraVars, reportVars, handlerVars>>
    /\ UNCHANGED <<runner, current_step, pc, err_msg, visited, started, last,
                   keypresses, triggered, finish_called>>

\* while let Some((workflow_item, action_result)) = futures.next().await:
\* the next ready output is handled (lines 243-251); when the pool is
\* exhausted run returns Ok.
DrainNext ==
    /\ pc = "drain"
    /\ completed # <<>>
    /\ LET i == Head(completed)
           f == futures[i]
           hr == handle_result(current_step, f.result, f.item, runner.workflow)
           fs == [futures EXCEPT ![i].status = "handled"]
       IN  /\ current_step' = hr.current_step
           /\ keypresses' = keypresses + (IF hr.keypress THEN 1 ELSE 0)
           /\ last' = Last("drain", f.step, f.item, f.result, hr.ret, current_step)
           /\ triggered' = (triggered \/ TakesErrorArm(f.result, f.item))
           /\ IF hr.ret # "Ok"
              THEN /\ pc' = "err"
                   /\ err_msg' = hr.ret
                   /\ futures' = DropFutures(fs)
              ELSE /\ pc' = IF \A k \in 1..Len(fs) : fs[k].status = "handled"
                            THEN "ok" ELSE "drain"
                   /\ err_msg' = err_msg
                   /\ futures' = fs
    /\ completed' = Tail(completed)
    /\ UNCHANGED <<sinkVars, cryptoVars, unpackVars, validateVars, processVars, yaraVars, reportVars, handlerVars>>
    /\ UNCHANGED <<runner, visited, started, finish_called>>

-----------------------------------------------------------------------------
(* workflow/src/handler.rs: WorkflowHandler::run, lines 98-107             *)

\* After workflow.run returned (Ok or Err) the handler calls fp.finish().
HandlerFinish ==
    /\ pc \in {"ok", "err"}
    /\ ~finish_called
    /\ finish_called' = TRUE
    /\ UNCHANGED <<sinkVars, cryptoVars, unpackVars, validateVars, processVars, yaraVars, reportVars, handlerVars>>
    /\ UNCHANGED <<runner, current_step, futures, completed, pc, err_msg,
                   visited, started, last, keypresses, triggered>>

NextWorkflow ==
    \/ VisitNotFound
    \/ VisitParallel
    \/ VisitSequential
    \/ \E i \in 1..Len(futures) : PollFuture(i)
    \/ \E i \in 1..Len(futures) : CompleteFuture(i)
    \/ DrainNext
    \/ HandlerFinish

SpecWorkflow == InitWorkflow /\ [][NextWorkflow]_vars

\* The runs of the three-step goto workflows: every step is sequential, so
\* only the step loop and the handler act.
InitGoto ==
    /\ \E w \in GotoWorkflows :
          LET v == ValidateWorkflow(w, RawActions, 1)
          IN  runner = [actions |-> v.actions, workflow |-> v.workflow]
    /\ current_step = 0
    /\ futures = <<>>
    /\ completed = <<>>
    /\ pc = "loop"
    /\ err_msg = ""
    /\ visited = <<>>
    /\ started = <<>>
    /\ last = NoLast
    /\ keypresses = 0
    /\ triggered = FALSE
    /\ finish_called = FALSE
    /\ IdleSink
    /\ IdleCrypto
    /\ IdleUnpack
    /\ IdleValidate
    /\ IdleProcess
    /\ IdleYara
    /\ IdleReport
    /\ IdleHandler

NextGoto ==
    \/ VisitSequential
    \/ HandlerFinish

SpecGoto == InitGoto /\ [][NextGoto]_vars

-----------------------------------------------------------------------------
(* workflow engine variables while no workflow is being run                *)

IdleWorkflow ==
    /\ runner = [actions |-> <<>>, workflow |-> <<>>]
    /\ current_step = 0
    /\ futures = <<>>
    /\ completed = <<>>
    /\ pc = "idle"
    /\ err_msg = ""
    /\ visited = <<>>
    /\ started = <<>>
    /\ last = NoLast
    /\ keypresses = 0
    /\ triggered = FALSE
    /\ finish_called = FALSE

IdleOthers ==
    /\ IdleWorkflow
    /\ IdleSink
    /\ IdleCrypto
    /\ IdleUnpack
    /\ IdleProcess
    /\ IdleYara
    /\ IdleReport
    /\ IdleHandler

InitValidate ==
    /\ IdleOthers
    /\ vrunner \in RawRunners
    /\ vbefore = vrunner
    /\ vconflicts = <<>>
    /\ vret = "none"
    /\ vcalls = 0

NextValidate == RunValidate

SpecValidate == InitValidate /\ [][NextValidate]_vars

\* read_workflow_file on the workflow files of TaggedRunners
InitLoad ==
    /\ IdleOthers
    /\ vrunner \in TaggedRunners
    /\ vbefore = vrunner
    /\ vconflicts = <<>>
    /\ vret = "none"
    /\ vcalls = 0

SpecLoad == InitLoad /\ [][NextValidate]_vars

-----------------------------------------------------------------------------
(* actions/src/binary.rs, command.rs: run, the wait and the timeout        *)

\* exit_code: Some(-1) of error_result!
ErrorExitCode == -1

TimeoutMessage(kind) == IF kind = "binary" THEN "Process timed out" ELSE "Command timed out"
FailedMessage(kind) == IF kind = "binary" THEN "Process failed" ELSE "Command failed"

\* The process spawned is the leader of a new process group
\* (ProcessGroup::leader); a process it forks is in the group of its parent.
Leader == 1
Process(group) == [state |-> "alive", group |-> group, code |-> 0]

\* child.kill() on the leader only
KillGroup_LeaderOnly(ps) ==
    [p \in DOMAIN ps |-> IF p = Leader /\ ps[p].state = "alive"
                         THEN [ps[p] EXCEPT !.state = "dead", !.code = 137] ELSE ps[p]]

\* child.kill(): SIGKILL to the process group of the leader, then wait
KillGroup(ps) ==
    [p \in DOMAIN ps |-> IF ps[p].state = "alive" /\ ps[p].group = "leader"
                         THEN [ps[p] EXCEPT !.state = "dead", !.code = 137] ELSE ps[p]]

\* run up to child.spawn(): a missing file or cwd and a failed spawn return
\* error_result!
Spawn(kind, timeout, parallel, spawned) ==
    /\ ppc = "idle"
    /\ pkind' = kind
    /\ poptions' = [timeout |-> timeout, parallel |-> parallel]
    /\ clock' = 0
    /\ IF spawned
       THEN /\ procs' = [procs EXCEPT ![Leader] = Process("leader")]
            /\ ppc' = "waiting"
            /\ UNCHANGED <<presult, pexit_code>>
       ELSE /\ ppc' = "done"
            /\ presult' = error_result("spawn failed")
            /\ pexit_code' = ErrorExitCode
            /\ UNCHANGED procs
    /\ UNCHANGED <<wfVars, sinkVars, cryptoVars, unpackVars, validateVars, yaraVars, reportVars, handlerVars>>

\* a live process forks
Fork(p, q) ==
    /\ procs[p].state = "alive"
    /\ procs[q].state = "none"
    /\ \A r \in 1..(q - 1) : procs[r].state # "none"
    /\ procs' = [procs EXCEPT ![q] = Process(procs[p].group)]
    /\ UNCHANGED <<ppc, pkind, poptions, clock, presult, pexit_code>>
    /\ UNCHANGED <<wfVars, sinkVars, cryptoVars, unpackVars, validateVars, yaraVars, reportVars, handlerVars>>

\* a descendant calls setsid or setpgid and leaves the group
Setsid(p) ==
    /\ p # Leader
    /\ procs[p].state = "alive"
    /\ procs[p].group = "leader"
    /\ procs' = [procs EXCEPT ![p].group = "own"]
    /\ UNCHANGED <<ppc, pkind, poptions, clock, presult, pexit_code>>
    /\ UNCHANGED <<wfVars, sinkVars, cryptoVars, unpackVars, validateVars, yaraVars, reportVars, handlerVars>>

\* a process exits by itself
Exit(p, code) ==
    /\ procs[p].state = "alive"
    /\ procs' = [procs EXCEPT ![p].state = "dead", ![p].code = code]
    /\ UNCHANGED <<ppc, pkind, poptions, clock, presult, pexit_code>>
    /\ UNCHANGED <<wfVars, sinkVars, cryptoVars, unpackVars, validateVars, yaraVars, reportVars, handlerVars>>

\* a second passes before the deadline, or without one
Tick ==
    /\ ppc = "waiting"
    /\ clock < MaxClock
    /\ poptions.timeout > 0 => clock + 1 < poptions.timeout
    /\ clock' = clock + 1
    /\ UNCHANGED <<ppc, pkind, poptions, procs, presult, pexit_code>>
    /\ UNCHANGED <<wfVars, sinkVars, cryptoVars, unpackVars, validateVars, yaraVars, reportVars, handlerVars>>

\* child.wait() returns the status of the leader
WaitReturns ==
    /\ ppc = "waiting"
    /\ procs[Leader].state = "dead"
    /\ LET success == procs[Leader].code = 0
       IN  /\ presult' = ActionResult(success, poptions.parallel, TRUE,
                                      IF success THEN "" ELSE FailedMessage(pkind))
           /\ pexit_code' = procs[Leader].code
    /\ ppc' = "done"
    /\ UNCHANGED <<pkind, poptions, clock, procs>>
    /\ UNCHANGED <<wfVars, sinkVars, cryptoVars, unpackVars, validateVars, yaraVars, reportVars, handlerVars>>

\* timeout(..) elapses with the leader still running: Err(_) => child.kill()
Elapsed ==
    /\ ppc = "waiting"
    /\ poptions.timeout > 0
    /\ clock + 1 = poptions.timeout
    /\ procs[Leader].state = "alive"
    /\ clock' = clock + 1
    /\ procs' = KillGroup(procs)
    /\ presult' = error_result(TimeoutMessage(pkind))
    /\ pexit_code' = ErrorExitCode
    /\ ppc' = "done"
    /\ UNCHANGED <<pkind, poptions>>
    /\ UNCHANGED <<wfVars, sinkVars, cryptoVars, unpackVars, validateVars, yaraVars, reportVars, handlerVars>>

Timeouts == {0, 1, 2}
ExitCodes == {0, 1}

InitProcess ==
    /\ IdleWorkflow
    /\ IdleSink
    /\ IdleCrypto
    /\ IdleUnpack
    /\ IdleValidate
    /\ IdleProcess
    /\ IdleYara
    /\ IdleReport
    /\ IdleHandler

NextProcess ==
    \/ \E kind \in timeout_action_types, timeout \in Timeouts, parallel \in BOOLEAN,
          spawned \in BOOLEAN : Spawn(kind, timeout, parallel, spawned)
    \/ \E p, q \in 1..MaxProcs : Fork(p, q)
    \/ \E p \in 1..MaxProcs : Setsid(p)
    \/ \E p \in 1..MaxProcs, code \in ExitCodes : Exit(p, code)
    \/ Tick
    \/ WaitReturns
    \/ Elapsed

SpecProcess == InitProcess /\ [][NextProcess]_vars

-----------------------------------------------------------------------------
(* crypto/src/lib.rs: encrypt_evidence and decrypt_evidence                *)

Algorithms == {"AES-128-GCM", "CHACHA20-POLY1305", "None"}

\* Algorithm::key_size, iv_size, tag_size
key_size(a) == IF a = "AES-128-GCM" THEN 16 ELSE IF a = "CHACHA20-POLY1305" THEN 32 ELSE 0
iv_size(a) == IF a = "None" THEN 0 ELSE 12
tag_size(a) == IF a = "None" THEN 0 ELSE 16

\* private_key.size(): bytes of an RSA-2048 modulus
RsaSize == 256

ByteValues == {0, 65, 255}

RECURSIVE FilesUpTo(_)
FilesUpTo(n) ==
    IF n = 0 THEN {<<>>}
    ELSE FilesUpTo(n - 1) \cup
         { Append(f, b) : f \in { g \in FilesUpTo(n - 1) : Len(g) = n - 1 }, b \in ByteValues }

Min(a, b) == IF a < b THEN a ELSE b
Max(a, b) == IF a > b THEN a ELSE b

Zeros(n) == [i \in 1..n |-> 0]

\* generate_random(size): the bytes drawn for one seed
RandomSeeds == {3, 250}
generate_random(seed, size) == [i \in 1..size |-> (seed * i) % 256]

\* RSA with PKCS#1 padding: public_encrypt under key pair id pub; private_decrypt
\* fills the start of a buffer of private_key.size() bytes with the plaintext
\* and fails under another key pair.
public_encrypt(pub, plain) == <<pub, plain>>
CanDecrypt(priv, encrypted_key) == Len(encrypted_key) = 2 /\ encrypted_key[1] = priv
private_decrypt(encrypted_key) ==
    encrypted_key[2] \o Zeros(RsaSize - Len(encrypted_key[2]))

\* the key kept at the full length of the RSA buffer
TakeKey_Whole(buf, size) == buf

\* key.iter().cloned().take(key_size).collect()
TakeKey(buf, size) == SubSeq(buf, 1, Min(size, Len(buf)))

\* Crypter::new(cipher, mode, key, iv) accepts only a key of the cipher's length
KeyFits(a, k) == Len(k) = key_size(a)
NewCrypter(mode, k, iv) == [mode |-> mode, key |-> k, iv |-> iv, n |-> 0, seen |-> <<>>]

\* Both ciphers are stream ciphers: output byte i depends on the key, the iv
\* and the number of bytes processed before it. The keystream is combined by
\* addition modulo 256 when encrypting and subtraction when decrypting.
KeyStream(c, n) ==
    (c.key[1 + (n % Len(c.key))] + c.iv[1 + (n % Len(c.iv))] + n) % 256

UpdateOutput(c, input) ==
    [i \in 1..Len(input) |->
        IF c.mode = "Encrypt"
        THEN (input[i] + KeyStream(c, c.n + i - 1)) % 256
        ELSE (input[i] + 256 - KeyStream(c, c.n + i - 1)) % 256]

\* crypter.update(input, output): the crypter afterwards
UpdateCrypter(c, input) ==
    [c EXCEPT !.n = @ + Len(input),
              !.seen = @ \o (IF c.mode = "Encrypt" THEN UpdateOutput(c, input) ELSE input)]

\* crypter.finalize(output): a stream cipher holds no partial block back
FinalizeCount == 0

\* the authentication tag over the ciphertext seen
Tag(c) == <<c.key, c.iv, c.seen>>

\* file.write_all(bytes) without the seek: the bytes go where the read that
\* produced them left the cursor.
WriteAt_NoSeek(f, pos, bytes) ==
    [i \in 1..Max(Len(f), pos + 2 * Len(bytes)) |->
        IF i > pos + Len(bytes) /\ i <= pos + 2 * Len(bytes)
        THEN bytes[i - pos - Len(bytes)] ELSE f[i]]

\* file.seek(SeekFrom::Start(pos)); file.write_all(bytes)
WriteAt(f, pos, bytes) ==
    [i \in 1..Max(Len(f), pos + Len(bytes)) |->
        IF i > pos /\ i <= pos + Len(bytes) THEN bytes[i - pos] ELSE f[i]]

\* file.read(&mut buffer) returning bytes
ReadInto(buf, bytes) ==
    [i \in 1..Len(buf) |-> IF i <= Len(bytes) THEN bytes[i] ELSE buf[i]]

\* One iteration of the read / update / seek / write loop shared by both
\* functions; bytes_read is what file.read returned (at least 1).
CryptBlock(bytes_read) ==
    /\ cursor < Len(cfile)
    /\ bytes_read <= Min(BlockSize, Len(cfile) - cursor)
    /\ LET input == SubSeq(cfile, cursor + 1, cursor + bytes_read)
           output == UpdateOutput(crypter, input)
           count == Len(output)
       IN  /\ buffer' = ReadInto(buffer, input)
           /\ crypter' = UpdateCrypter(crypter, input)
           /\ cfile' = WriteAt(cfile, position, SubSeq(output, 1, count))
           /\ cursor' = position + count
           /\ position' = position + count

\* the write after finalize: &buffer[..count] at position, if count > 0
FinalWrite(f, count) ==
    IF count > 0 THEN WriteAt(f, position, SubSeq(buffer, 1, count)) ELSE f

\* The loop of both functions run to the end of the file with full reads:
\* the crypter and the file afterwards.
RECURSIVE CryptLoop(_, _, _)
CryptLoop(c, f, pos) ==
    IF pos >= Len(f) THEN [crypter |-> c, file |-> f]
    ELSE LET input == SubSeq(f, pos + 1, pos + Min(BlockSize, Len(f) - pos))
         IN  CryptLoop(UpdateCrypter(c, input),
                       WriteAt(f, pos, UpdateOutput(c, input)),
                       pos + Len(input))

\* encrypt_evidence(path, public_key, algorithm) as a function of the file:
\* the file afterwards and the returned (encrypted_key, iv, tag)
EncryptEvidence(f, pub, alg, key_seed, iv_seed) ==
    IF alg = "None"
    THEN [file |-> f, encrypted_key |-> <<>>, iv |-> <<>>, tag |-> <<>>]
    ELSE LET k == generate_random(key_seed, key_size(alg))
             iv == generate_random(iv_seed, iv_size(alg))
             done == CryptLoop(NewCrypter("Encrypt", k, iv), f, 0)
         IN  [file |-> done.file, encrypted_key |-> public_encrypt(pub, k),
              iv |-> iv, tag |-> Tag(done.crypter)]

\* decrypt_evidence(path, private_key, metadata) as a function of the file:
\* the result and the file afterwards
DecryptEvidence(f, priv, m) ==
    IF m.algorithm = "None" THEN [ret |-> "Ok", file |-> f]
    ELSE IF ~CanDecrypt(priv, m.encrypted_key)
    THEN [ret |-> "Failed to decrypt the key", file |-> f]
    ELSE LET k == TakeKey(private_decrypt(m.encrypted_key), key_size(m.algorithm))
         IN  IF ~KeyFits(m.algorithm, k) \/ Len(m.iv) # iv_size(m.algorithm)
             THEN [ret |-> "Failed to initialize the crypter", file |-> f]
             ELSE LET done == CryptLoop(NewCrypter("Decrypt", k, m.iv), f, 0)
                  IN  [ret |-> IF m.tag = Tag(done.crypter) THEN "Ok"
                               ELSE "Failed to finalize decryption",
                       file |-> done.file]

\* encrypt_evidence up to the loop: steps 0 to 3 and opening the file
EncryptBegin(key_seed, iv_seed) ==
    /\ cpc = "plain"
    /\ IF cipher_alg = "None"
       THEN /\ cpc' = "encrypted"
            /\ meta' = [algorithm |-> cipher_alg, encrypted_key |-> <<>>,
                        iv |-> <<>>, tag |-> <<>>]
            /\ cret' = "Ok"
            /\ UNCHANGED <<sym_key, crypter, cursor, position, buffer>>
       ELSE LET k == generate_random(key_seed, key_size(cipher_alg))
                iv == generate_random(iv_seed, iv_size(cipher_alg))
            IN  /\ cpc' = "enc_loop"
                /\ sym_key' = k
                /\ meta' = [algorithm |-> cipher_alg,
                            encrypted_key |-> public_encrypt(keypair.public, k),
                            iv |-> iv, tag |-> <<>>]
                /\ crypter' = NewCrypter("Encrypt", k, iv)
                /\ cursor' = 0
                /\ position' = 0
                /\ buffer' = Zeros(BlockSize)
                /\ cret' = "running"
    /\ UNCHANGED <<cfile, original, keypair, cipher_alg>>
    /\ UNCHANGED <<wfVars, sinkVars, unpackVars, validateVars, processVars, yaraVars, reportVars, handlerVars>>

EncryptBlock(bytes_read) ==
    /\ cpc = "enc_loop"
    /\ CryptBlock(bytes_read)
    /\ UNCHANGED <<cpc, original, keypair, cipher_alg, sym_key, meta, cret>>
    /\ UNCHANGED <<wfVars, sinkVars, unpackVars, validateVars, processVars, yaraVars, reportVars, handlerVars>>

\* encrypt_evidence after the loop: steps 5 and 6
EncryptEnd ==
    /\ cpc = "enc_loop"
    /\ cursor >= Len(cfile)
    /\ cfile' = FinalWrite(cfile, FinalizeCount)
    /\ meta' = [meta EXCEPT !.tag = Tag(crypter)]
    /\ sym_key' = Zeros(Len(sym_key))
    /\ cpc' = "encrypted"
    /\ cret' = "Ok"
    /\ UNCHANGED <<original, keypair, cipher_alg, crypter, cursor, position, buffer>>
    /\ UNCHANGED <<wfVars, sinkVars, unpackVars, validateVars, processVars, yaraVars, reportVars, handlerVars>>

\* What crypter.finalize(&mut final_buffer) writes when the cipher held
\* count bytes back: the bytes the keystream gives at the end of the input.
FinalizeOutput(c, count) == [i \in 1..count |-> KeyStream(c, c.n + i - 1)]

\* Steps 5 and 6 of encrypt_evidence when finalize returns count > 0, which
\* the signature of Crypter::finalize allows and neither cipher of Algorithm
\* does today: the write takes its bytes from buffer, final_buffer is not
\* read again.
EncryptEndTrailing(count) ==
    /\ cpc = "enc_loop"
    /\ cursor >= Len(cfile)
    /\ count > 0
    /\ cfile' = FinalWrite(cfile, count)
    /\ meta' = [meta EXCEPT !.tag = Tag(crypter)]
    /\ sym_key' = Zeros(Len(sym_key))
    /\ cpc' = "encrypted"
    /\ cret' = "Ok"
    /\ UNCHANGED <<original, keypair, cipher_alg, crypter, cursor, position, buffer>>
    /\ UNCHANGED <<wfVars, sinkVars, unpackVars, validateVars, processVars, yaraVars, reportVars, handlerVars>>

\* file.read, crypter.update, file.seek or file.write_all returns an error
\* inside the loop of encrypt_evidence: the ? operator returns it at once,
\* and key is dropped as it is.
EncryptIoError ==
    /\ cpc = "enc_loop"
    /\ cpc' = "enc_failed"
    /\ cret' = "I/O error"
    /\ UNCHANGED <<cfile, original, keypair, cipher_alg, sym_key, crypter, cursor,
                   position, buffer, meta>>
    /\ UNCHANGED <<wfVars, sinkVars, unpackVars, validateVars, processVars, yaraVars, reportVars, handlerVars>>

\* decrypt_evidence up to the loop: steps 0 to 3
DecryptBegin ==
    /\ cpc = "encrypted"
    /\ IF meta.algorithm = "None"
       THEN /\ cpc' = "decrypted"
            /\ cret' = "Ok"
            /\ UNCHANGED <<sym_key, crypter, cursor, position, buffer>>
       ELSE IF ~CanDecrypt(keypair.private, meta.encrypted_key)
       THEN /\ cpc' = "decrypted"
            /\ cret' = "Failed to decrypt the key"
            /\ UNCHANGED <<sym_key, crypter, cursor, position, buffer>>
       ELSE LET k == TakeKey(private_decrypt(meta.encrypted_key), key_size(meta.algorithm))
            IN  IF ~KeyFits(meta.algorithm, k)
                THEN /\ cpc' = "decrypted"
                     /\ cret' = "Failed to initialize the crypter"
                     /\ sym_key' = k
                     /\ UNCHANGED <<crypter, cursor, position, buffer>>
                ELSE /\ cpc' = "dec_loop"
                     /\ cret' = "running"
                     /\ sym_key' = k
                     /\ crypter' = NewCrypter("Decrypt", k, meta.iv)
                     /\ cursor' = 0
                     /\ position' = 0
                     /\ buffer' = Zeros(BlockSize)
    /\ UNCHANGED <<cfile, original, keypair, cipher_alg, meta>>
    /\ UNCHANGED <<wfVars, sinkVars, unpackVars, validateVars, processVars, yaraVars, reportVars, handlerVars>>

DecryptBlock(bytes_read) ==
    /\ cpc = "dec_loop"
    /\ CryptBlock(bytes_read)
    /\ UNCHANGED <<cpc, original, keypair, cipher_alg, sym_key, meta, cret>>
    /\ UNCHANGED <<wfVars, sinkVars, unpackVars, validateVars, processVars, yaraVars, reportVars, handlerVars>>

\* decrypt_evidence after the loop: steps 4 to 6
DecryptEnd ==
    /\ cpc = "dec_loop"
    /\ cursor >= Len(cfile)
    /\ cpc' = "decrypted"
    /\ IF meta.tag = Tag(crypter)
       THEN /\ cfile' = FinalWrite(cfile, FinalizeCount)
            /\ sym_key' = Zeros(Len(sym_key))
            /\ cret' = "Ok"
       ELSE /\ cret' = "Failed to finalize decryption"
            /\ UNCHANGED <<cfile, sym_key>>
    /\ UNCHANGED <<original, keypair, cipher_alg, crypter, cursor, position, buffer, meta>>
    /\ UNCHANGED <<wfVars, sinkVars, unpackVars, validateVars, processVars, yaraVars, reportVars, handlerVars>>

\* The same inside the loop of decrypt_evidence.
DecryptIoError ==
    /\ cpc = "dec_loop"
    /\ cpc' = "dec_failed"
    /\ cret' = "I/O error"
    /\ UNCHANGED <<cfile, original, keypair, cipher_alg, sym_key, crypter, cursor,
                   position, buffer, meta>>
    /\ UNCHANGED <<wfVars, sinkVars, unpackVars, validateVars, processVars, yaraVars, reportVars, handlerVars>>

InitCrypto ==
    /\ IdleWorkflow
    /\ IdleSink
    /\ IdleUnpack
    /\ IdleValidate
    /\ IdleProcess
    /\ IdleYara
    /\ IdleReport
    /\ IdleHandler
    /\ cpc = "plain"
    /\ cfile \in FilesUpTo(MaxLen)
    /\ original = cfile
    /\ keypair \in {[public |-> 1, private |-> 1], [public |-> 1, private |-> 2]}
    /\ cipher_alg \in Algorithms
    /\ sym_key = <<>>
    /\ crypter = NoCrypter
    /\ cursor = 0
    /\ position = 0
    /\ buffer = <<>>
    /\ meta = NoMeta
    /\ cret = "none"

NextCrypto ==
    \/ \E key_seed \in RandomSeeds, iv_seed \in RandomSeeds : EncryptBegin(key_seed, iv_seed)
    \/ \E bytes_read \in 1..BlockSize : EncryptBlock(bytes_read)
    \/ EncryptEnd
    \/ DecryptBegin
    \/ \E bytes_read \in 1..BlockSize : DecryptBlock(bytes_read)
    \/ DecryptEnd
    \/ EncryptIoError
    \/ DecryptIoError

SpecCrypto == InitCrypto /\ [][NextCrypto]_vars

\* encrypt_evidence with a Crypter whose finalize hands bytes back
NextTrailing ==
    \/ \E key_seed \in RandomSeeds, iv_seed \in RandomSeeds : EncryptBegin(key_seed, iv_seed)
    \/ \E bytes_read \in 1..BlockSize : EncryptBlock(bytes_read)
    \/ \E count \in 1..MaxTrailing : EncryptEndTrailing(count)

SpecTrailing == InitCrypto /\ [][NextTrailing]_vars

-----------------------------------------------------------------------------
(* storage/src/lib.rs: FileProcessor::store and FileProcessor::finish      *)

\* Files of the machine and of the report directory. area "system" is
\* outside the report, "loot_files" is report.loot_dir, "action_output" is
\* report.action_log_dir, "report" is the report directory itself.
Path(area, name) == [area |-> area, name |-> name]

E1 == Path("system", "e1")
MISSING == Path("system", "missing")
L1 == Path(LOOT_DIR, "l1")
A1 == Path(ACTION_LOG_DIR, "a1.log")
META == Path("report", METADATA_PATH)

StorePaths == {E1, MISSING, L1, A1}
AllPaths == StorePaths \cup {META}

Bytes(p) == <<"bytes", p.name>>
Empty == <<>>

\* utils::misc::file_name_checksum: SHA-1 of the absolute path
file_name_checksum(p) == "sha1:" \o p.area \o "/" \o p.name

\* SHA-1 of a file content
Sha1(content) == <<"sha1", content>>

\* abs_file_path.starts_with(loot_dir) / starts_with(report.dir)
InLootDir(p) == p.area = LOOT_DIR
InReportDir_Everywhere(p) == TRUE
InReportDir(p) == p.area \in {LOOT_DIR, ACTION_LOG_DIR, "report"}

ZipName(dir, name) == [dir |-> dir, name |-> name]

\* the dedup test with the check left out
AlreadyAdded_Never(added_files, path_checksum) == FALSE

\* self.added_files.contains_key(&metadata.path_checksum)
AlreadyAdded(added_files, path_checksum) == path_checksum \in added_files

\* Outcomes of step 8 of store: csv_writer.serialize(metadata) puts the row
\* into the writer, csv_writer.flush() writes the writer's rows to the file.
\* "flush_error": flush fails after serialize succeeded; the row stays in the
\* writer and store returns the error.
CsvOutcomes == {"ok", "flush_error"}

Write(dir, name, content) ==
    [n \in (DOMAIN dir) \cup {name} |-> IF n = name THEN content ELSE dir[n]]

Partial(content) == <<"partial", content>>

ZipEntry(name, content) == [name |-> name, content |-> content]

\* ZipWriter::start_file refuses a name the archive already holds
HasEntry(entries, name) == \E i \in 1..Len(entries) : entries[i].name = name

\* Outcomes of copying the bytes of one file: "ok"; "fail", nothing was
\* written (the source cannot be opened, the entry or the destination cannot
\* be created); "partial", a read or write error after the entry or the
\* destination was created; "kept", every byte was copied and the
\* fs::remove_file that follows in add_file_to_zip failed, which is logged.
CopyOutcomes == {"ok", "fail", "partial", "kept"}

\* FileProcessor::store(file_path, comment). copy: outcome of add_file_to_zip,
\* copy_file_with_sha1 or fs::copy; csv: outcome of writing the metadata row.
Store(file_path, copy, csv) ==
    /\ pc = "idle"
    /\ calls.store < MaxStoreCalls
    /\ LET settings == fp.report_settings
           path_checksum == file_name_checksum(file_path)
           in_loot_dir == InLootDir(file_path)
           archive_filename == IF in_loot_dir THEN ZipName(LOOT_DIR, file_path.name)
                               ELSE ZipName(STORAGE_DIR, path_checksum)
           enable_archive == settings.zip_archive.enabled
           \* without archive a file lying directly in loot_files/ is copied
           \* onto itself: creating the destination truncates it before it
           \* is read
           self_copy == ~enable_archive /\ in_loot_dir
           reached == /\ disk[file_path] # Absent
                      /\ (in_loot_dir \/ ~AlreadyAdded(fp.added_files, path_checksum))
           created == /\ reached
                      /\ copy # "fail"
                      /\ enable_archive =>
                            /\ fp.zip_writer = "open"
                            /\ ~HasEntry(zip_entries, archive_filename)
           copied == created /\ copy \in {"ok", "kept"}
           \* add_file_to_zip removes a source inside the report directory
           \* once the copy loop has ended
           removes == copied /\ enable_archive /\ InReportDir(file_path)
           ret == IF disk[file_path] = Absent THEN "File not found"
                  ELSE IF ~reached THEN "File already added to the archive"
                  ELSE IF ~copied
                       THEN (IF enable_archive THEN "Failed to add file to zip archive"
                             ELSE "Failed to copy file")
                  ELSE IF csv # "ok" THEN "Failed to write metadata"
                  ELSE "Ok"
           source == IF self_copy THEN Empty ELSE disk[file_path]
           content == IF copied THEN source ELSE Partial(source)
           metadata == [original_path |-> file_path,
                        path_checksum |-> path_checksum,
                        sha1_checksum |-> IF settings.metadata.checksums
                                          THEN Sha1(source) ELSE ""]
       IN  /\ zip_entries' = IF created /\ enable_archive
                             THEN Append(zip_entries, ZipEntry(archive_filename, content))
                             ELSE zip_entries
           /\ disk' = IF removes /\ copy = "ok"
                      THEN [disk EXCEPT ![file_path] = Absent]
                      ELSE IF created /\ self_copy
                           THEN [disk EXCEPT ![file_path] = Empty]
                      ELSE disk
           /\ stored_dir' = IF created /\ ~enable_archive /\ ~in_loot_dir
                            THEN Write(stored_dir, path_checksum, content)
                            ELSE stored_dir
           /\ fp' = IF copied /\ ~in_loot_dir
                    THEN [fp EXCEPT !.added_files = @ \cup {path_checksum}] ELSE fp
           /\ csv_rows' = IF copied /\ csv = "ok"
                          THEN csv_rows \o csv_buffer \o <<metadata>> ELSE csv_rows
           /\ csv_buffer' = IF ~copied THEN csv_buffer
                            ELSE IF csv = "ok" THEN <<>>
                            ELSE Append(csv_buffer, metadata)
           /\ calls' = [calls EXCEPT !.store = @ + 1,
                                     !.store_ok = @ + (IF ret = "Ok" THEN 1 ELSE 0)]
           /\ stored_ok' = IF ret = "Ok" THEN stored_ok \cup {path_checksum} ELSE stored_ok
           /\ last_call' = [op |-> "store", path |-> file_path, ret |-> ret,
                            remove_failed |-> removes /\ copy = "kept"]
    /\ UNCHANGED <<zip_layers, sidecar>>
    /\ UNCHANGED <<wfVars, cryptoVars, unpackVars, validateVars, processVars, yaraVars, reportVars, handlerVars>>

\* EncryptionMeta::default()
DefaultEncryptionMeta == [algorithm |-> "None", encrypted_key |-> <<>>, iv |-> <<>>, tag |-> <<>>]

\* The files finish sweeps into the archive, in pattern order:
\* loot_files/**/*, action_output/*, metadata.csv.
SweepOrder == <<L1, A1, META>>

SweepName(p) == IF p.area = "report" THEN ZipName("", p.name) ELSE ZipName(p.area, p.name)

\* add_file_to_zip adds the file and removes it from the report directory;
\* a file whose name the archive already holds is refused and stays.
Swept(entries, d, p) == d[p] # Absent /\ ~HasEntry(entries, SweepName(p))

RECURSIVE SweepEntries(_, _, _, _)
SweepEntries(entries, d, rows, i) ==
    IF i > Len(SweepOrder) THEN entries
    ELSE LET p == SweepOrder[i]
             content == IF p = META THEN rows ELSE d[p]
         IN  SweepEntries(IF Swept(entries, d, p)
                          THEN Append(entries, ZipEntry(SweepName(p), content))
                          ELSE entries, d, rows, i + 1)

\* The bytes of a finished report.zip: the local file header signature
\* PK\x03\x04, the records of the archive, the end of central directory
\* record. One byte stands for the records: CollectorContent for the
\* entries the sink wrote (zip_entries), ForeignContent for entries written
\* by somebody else.
ZIP_MAGIC == <<80, 75, 3, 4>>
EndRecord == 6
CollectorContent == 1
ForeignContent == 2
WriteZip(content) == ZIP_MAGIC \o <<content, EndRecord>>

\* FileProcessor::finish(). sidecar_ok: write_encryption_metadata succeeds;
\* key_seed, iv_seed: what generate_random draws in encrypt_evidence.
Finish(sidecar_ok, key_seed, iv_seed) ==
    /\ pc = "idle"
    /\ calls.finish < MaxFinishCalls
    /\ LET settings == fp.report_settings
           archive_enabled == settings.zip_archive.enabled
           encryption_enabled == settings.zip_archive.encryption.enabled
           algorithm == settings.zip_archive.encryption.algorithm
           sweeps == archive_enabled /\ fp.zip_writer = "open"
           encrypts == /\ archive_enabled /\ encryption_enabled
                       /\ fp.public_key # "none" /\ algorithm # "None"
           \* writer.finish() completes report.zip
           plain == IF sweeps THEN WriteZip(CollectorContent) ELSE cfile
           enc == EncryptEvidence(plain, fp.public_key, algorithm, key_seed, iv_seed)
       IN  /\ zip_entries' = IF sweeps THEN SweepEntries(zip_entries, disk, csv_rows, 1)
                             ELSE zip_entries
           /\ disk' = IF sweeps
                      THEN [p \in DOMAIN disk |->
                               IF /\ \E i \in 1..Len(SweepOrder) : SweepOrder[i] = p
                                  /\ Swept(zip_entries, disk, p)
                               THEN Absent ELSE disk[p]]
                      ELSE disk
           /\ fp' = IF archive_enabled THEN [fp EXCEPT !.zip_writer = "none"] ELSE fp
           /\ zip_layers' = IF encrypts THEN zip_layers + 1 ELSE zip_layers
           /\ sidecar' = IF ~archive_enabled \/ ~sidecar_ok THEN sidecar
                         ELSE IF ~encryption_enabled THEN DefaultEncryptionMeta
                         ELSE IF encrypts
                              THEN [algorithm |-> algorithm,
                                    encrypted_key |-> enc.encrypted_key,
                                    iv |-> enc.iv, tag |-> enc.tag]
                         ELSE [algorithm |-> algorithm, encrypted_key |-> <<>>,
                               iv |-> <<>>, tag |-> <<>>]
           /\ last_call' = [op |-> "finish", path |-> "",
                            ret |-> IF archive_enabled /\ ~sidecar_ok
                                    THEN "Failed to write encryption metadata"
                                    ELSE "Ok",
                            remove_failed |-> FALSE]
           /\ cfile' = IF ~archive_enabled THEN cfile
                       ELSE IF encrypts THEN enc.file ELSE plain
    /\ calls' = [calls EXCEPT !.finish = @ + 1]
    /\ UNCHANGED <<csv_rows, csv_buffer, stored_dir, stored_ok>>
    /\ UNCHANGED <<cpc, original, keypair, cipher_alg, sym_key, crypter, cursor,
                   position, buffer, meta, cret>>
    /\ UNCHANGED <<wfVars, unpackVars, validateVars, processVars, yaraVars, reportVars, handlerVars>>

\* The reporting sections a sink is given: encryption only with the
\* archive, a public key only with encryption.
SinkSettings ==
    { Reporting(archive, encryption, IF encryption THEN "AES-128-GCM" ELSE "None", checksums) :
        archive \in BOOLEAN, encryption \in BOOLEAN, checksums \in BOOLEAN }

SinkKeys(settings) ==
    IF settings.zip_archive.encryption.enabled THEN {"none", "public.pem"} ELSE {"none"}

InitSink ==
    /\ IdleWorkflow
    /\ IdleCrypto
    /\ IdleUnpack
    /\ IdleValidate
    /\ IdleProcess
    /\ IdleYara
    /\ IdleReport
    /\ IdleHandler
    /\ \E settings \in SinkSettings :
          /\ settings.zip_archive.encryption.enabled => settings.zip_archive.enabled
          /\ \E key \in SinkKeys(settings) : fp = NewFileProcessor(settings, key)
    /\ zip_entries = <<>>
    /\ zip_layers = 0
    /\ csv_rows = <<>>
    /\ csv_buffer = <<>>
    /\ disk = [p \in AllPaths |-> IF p = MISSING THEN Absent ELSE Bytes(p)]
    /\ stored_dir = <<>>
    /\ sidecar = NoSidecar
    /\ calls = [store |-> 0, store_ok |-> 0, finish |-> 0]
    /\ stored_ok = {}
    /\ last_call = NoCall

NextSink ==
    \/ \E file_path \in StorePaths, copy \in CopyOutcomes, csv \in CsvOutcomes :
          Store(file_path, copy, csv)
    \/ \E sidecar_ok \in BOOLEAN, key_seed \in RandomSeeds, iv_seed \in RandomSeeds :
          Finish(sidecar_ok, key_seed, iv_seed)

SpecSink == InitSink /\ [][NextSink]_vars

-----------------------------------------------------------------------------
(* unpacker/src/main.rs: path_to_storage_location, utils/src/sanitize.rs   *)

\* A string is a sequence of characters; a character is a one-letter string
\* or a run of ordinary letters ("etc", "e1").
Separators == {"/", "\\"}
IllegalChars == {"/", "\\", "?", "<", ">", ":", "*", "|", "\""}
WindowsReserved == {<<"CON">>, <<"NUL">>}

RECURSIVE Filter(_, _)
Filter(str, drop) ==
    IF str = <<>> THEN <<>>
    ELSE (IF Head(str) \in drop THEN <<>> ELSE <<Head(str)>>) \o Filter(Tail(str), drop)

RECURSIVE StripTrailing(_, _)
StripTrailing(str, drop) ==
    IF str # <<>> /\ str[Len(str)] \in drop
    THEN StripTrailing(SubSeq(str, 1, Len(str) - 1), drop)
    ELSE str

\* the sanitizer without the replacement of spaces
sanitize_dirname_KeepsSpaces(dirname) ==
    LET legal == Filter(dirname, IllegalChars)
        named == IF legal # <<>> /\ \A i \in 1..Len(legal) : legal[i] = "." THEN <<>> ELSE legal
        unreserved == IF named \in WindowsReserved THEN <<>> ELSE named
    IN  StripTrailing(unreserved, {".", " "})

\* sanitize_filename::sanitize_with_options(windows: true, replacement: ""),
\* then spaces become underscores
sanitize_dirname(dirname) ==
    LET legal == Filter(dirname, IllegalChars)
        named == IF legal # <<>> /\ \A i \in 1..Len(legal) : legal[i] = "." THEN <<>> ELSE legal
        unreserved == IF named \in WindowsReserved THEN <<>> ELSE named
        trimmed == StripTrailing(unreserved, {".", " "})
    IN  [i \in 1..Len(trimmed) |-> IF trimmed[i] = " " THEN "_" ELSE trimmed[i]]

\* file_path.strip_prefix("\\\\?\\").unwrap_or(&file_path)
VerbatimPrefix == <<"\\", "\\", "?", "\\">>
StripVerbatim(str) ==
    IF Len(str) >= 4 /\ SubSeq(str, 1, 4) = VerbatimPrefix
    THEN SubSeq(str, 5, Len(str)) ELSE str

\* relative_path.split(|c| c == '\\' || c == '/'): never empty, the pieces
\* may be
RECURSIVE Split(_, _)
Split(str, piece) ==
    IF str = <<>> THEN <<piece>>
    ELSE IF Head(str) \in Separators THEN <<piece>> \o Split(Tail(str), <<>>)
    ELSE Split(Tail(str), Append(piece, Head(str)))

RECURSIVE NonEmpty(_)
NonEmpty(comps) ==
    IF comps = <<>> THEN <<>>
    ELSE (IF Head(comps) = <<>> THEN <<>> ELSE <<Head(comps)>>) \o NonEmpty(Tail(comps))

\* A location: root "output" is the output directory, root "/" the root of
\* the file system (or of the drive); comps are the components below it.
Location(root, comps) == [root |-> root, comps |-> comps]

IsPrefix(a, b) == Len(a) <= Len(b) /\ SubSeq(b, 1, Len(a)) = a

\* The output directory is /out, or /out/stored_files when the directory
\* given is named stored_files.
OutputPath(ends_storage) ==
    IF ends_storage THEN <<<<"out">>, <<STORAGE_DIR>>>> ELSE <<<<"out">>>>

\* an absolute path, as a location
Absolute(comps, ends_storage) ==
    LET output_path == OutputPath(ends_storage)
    IN  IF IsPrefix(output_path, comps)
        THEN Location("output", SubSeq(comps, Len(output_path) + 1, Len(comps)))
        ELSE Location("/", comps)

\* path_to_storage_location(original_path, output_path). ends_storage: the
\* last component of output_path is stored_files. The components are joined
\* with the separator and the result joined to <base>/stored_files; a joined
\* string that starts with the separator replaces the base.
path_to_storage_location(original_path, ends_storage) ==
    LET pieces == Split(StripVerbatim(original_path), <<>>)
        components == IF pieces[1] = <<>> THEN Tail(pieces) ELSE pieces
        sanitized == [i \in 1..Len(components) |-> sanitize_dirname(components[i])]
        rooted == Len(sanitized) >= 2 /\ sanitized[1] = <<>>
    IN  IF rooted THEN Absolute(NonEmpty(sanitized), ends_storage)
        ELSE Location("output",
                      (IF ends_storage THEN <<>> ELSE <<<<STORAGE_DIR>>>>) \o NonEmpty(sanitized))

-----------------------------------------------------------------------------
(* unpacker/src/main.rs: run                                               *)

\* is_valid_zip_archive: the first four bytes are PK\x03\x04
is_valid_zip_archive_Never(f) == FALSE
is_valid_zip_archive(f) == Len(f) >= 4 /\ SubSeq(f, 1, 4) = ZIP_MAGIC

\* ZipArchive::new accepts the file
WellFormedZip(f) ==
    /\ Len(f) = Len(ZIP_MAGIC) + 2
    /\ is_valid_zip_archive(f)
    /\ f[Len(f)] = EndRecord
    /\ f[Len(f) - 1] \in {CollectorContent, ForeignContent}

\* The original_path strings of a metadata.csv written by somebody else.
HostilePaths ==
    << <<>>,
       <<"/", ".", ".", "/", ".", ".", "/", "etc", "/", "x">>,
       <<"/", "/", "x">>,
       <<"/", "/", "out", "/", "evil">>,
       <<"\\", "\\", "?", "\\", "C", ":", "\\", "x">>,
       <<".", ".", "\\", ".", ".", " ", "\\", "CON", "/", "y">>,
       <<"?", "/", "z">>,
       <<"metadata.csv">> >>

HostileChecksum(i) == "sha1:hostile/" \o ToString(i)

\* a path given by its characters
RawPath(str) == Path("raw", str)

\* the entries somebody else put into a substituted archive: one stored
\* file and one metadata row per hostile path
ForeignEntries ==
    [i \in 1..Len(HostilePaths) |->
        ZipEntry(ZipName(STORAGE_DIR, HostileChecksum(i)), <<"bytes", "planted">>)]
    \o << ZipEntry(ZipName("", METADATA_PATH),
                   [i \in 1..Len(HostilePaths) |->
                       [original_path |-> RawPath(HostilePaths[i]),
                        path_checksum |-> HostileChecksum(i),
                        sha1_checksum |-> ""]]) >>

\* the entries ZipArchive reads from a well-formed file
ArchiveEntries(f) ==
    IF f[Len(f) - 1] = CollectorContent THEN zip_entries ELSE ForeignEntries

\* A file of the output directory: its path below the output directory, as
\* a sequence of components, and its content.
OutFile(path, content) == [path |-> path, content |-> content]

EntryPath(name) == IF name.dir = "" THEN <<<<name.name>>>> ELSE <<<<name.dir>>, <<name.name>>>>

\* archive.extract(&output_path)
Extract(entries) == { OutFile(EntryPath(entries[i].name), entries[i].content) : i \in 1..Len(entries) }

\* A third party overwrites bytes of report.zip after the collector has
\* finished: any single byte, or the start of the file.
TamperWrites ==
    { <<pos, <<0>>>> : pos \in {0, Len(ZIP_MAGIC), Len(ZIP_MAGIC) + 1} }
        \cup { <<0, ZIP_MAGIC>>, <<0, WriteZip(ForeignContent)>> }

TamperArchive(pos, bytes) ==
    /\ upc = "idle"
    /\ calls.finish >= 1
    /\ tampers < MaxTampers
    /\ pos + Len(bytes) <= Len(cfile)
    /\ cfile' = WriteAt(cfile, pos, bytes)
    /\ cfile' # cfile
    /\ tampers' = tampers + 1
    /\ UNCHANGED <<upc, out_dir, outside, uret, run_log>>
    /\ UNCHANGED <<cpc, original, keypair, cipher_alg, sym_key, crypter, cursor,
                   position, buffer, meta, cret>>
    /\ UNCHANGED <<wfVars, sinkVars, validateVars, processVars, yaraVars, reportVars, handlerVars>>

\* A third party changes the tag stored in encryption.json.
TamperTag ==
    /\ upc = "idle"
    /\ calls.finish >= 1
    /\ tampers < MaxTampers
    /\ sidecar.tag # <<>>
    /\ sidecar' = [sidecar EXCEPT !.tag = [@ EXCEPT ![3] = Append(@, 0)]]
    /\ tampers' = tampers + 1
    /\ UNCHANGED <<upc, out_dir, outside, uret, run_log>>
    /\ UNCHANGED <<fp, zip_entries, zip_layers, csv_rows, csv_buffer, disk, stored_dir,
                   calls, stored_ok, last_call>>
    /\ UNCHANGED <<wfVars, cryptoVars, validateVars, processVars, yaraVars, reportVars, handlerVars>>

\* the canonical path of a stored file, as the string of the CSV
PathString(p) ==
    IF p.area = "raw" THEN p.name
    ELSE IF p.area = "system" THEN <<"/", "tmp", " ", "dir", "/", p.name>>
    ELSE <<"/", "report", "/", p.area, "/", p.name>>

\* path_checksum.len() == 40: every SHA-1 in hex is, "short" stands for the others
HasChecksumLength(path_checksum) == path_checksum # "short"

FileAt(files, path) == \E f \in files : f.path = path

\* the directories the archive holds from the start
ArchiveDirs == {<<>>, <<<<LOOT_DIR>>>>, <<<<STORAGE_DIR>>>>, <<<<ACTION_LOG_DIR>>>>}

DirAt(files, path) ==
    \/ path \in ArchiveDirs
    \/ \E f \in files : IsPrefix(path, f.path) /\ f.path # path

\* new_path.exists(), for a path below the output directory
ExistsAt(files, path) == FileAt(files, path) \/ DirAt(files, path)

\* the location is below <output>/stored_files/
UnderStorage(loc) ==
    loc.root = "output" /\ Len(loc.comps) >= 2 /\ loc.comps[1] = <<STORAGE_DIR>>

\* restore_file without the test new_path.starts_with(output_path)
restore_file_Unguarded(files, file_path, record, ends_storage) ==
    LET new_path == path_to_storage_location(PathString(record.original_path), ends_storage)
        f == CHOOSE g \in files : g.path = file_path
    IN  IF new_path.root = "output" /\ ExistsAt(files, new_path.comps)
        THEN [ret |-> "Ok", files |-> files, created |-> {}]
        ELSE [ret |-> "Ok",
              files |-> IF new_path.root = "output"
                        THEN (files \ {f}) \cup {OutFile(new_path.comps, f.content)}
                        ELSE files \ {f},
              created |-> {new_path}]

\* restore_file(output_path, file_path, record) on the files of the output
\* directory: the result, the files afterwards and the path created, if any
restore_file(files, file_path, record, ends_storage) ==
    LET new_path == path_to_storage_location(PathString(record.original_path), ends_storage)
        skipped == [ret |-> "Ok", files |-> files, created |-> {}]
    IN  IF new_path.root = "output" /\ ExistsAt(files, new_path.comps) THEN skipped
        ELSE IF new_path.root # "output" THEN skipped
        ELSE IF \E n \in 1..(Len(new_path.comps) - 1) :
                    FileAt(files, SubSeq(new_path.comps, 1, n))
             THEN [ret |-> "Failed to create directory", files |-> files, created |-> {}]
        ELSE LET f == CHOOSE g \in files : g.path = file_path
             IN  [ret |-> "Ok",
                  files |-> (files \ {f}) \cup {OutFile(new_path.comps, f.content)},
                  created |-> {new_path}]

\* the loop over the records of metadata.csv
RECURSIVE ProcessRecords(_, _, _, _, _)
ProcessRecords(records, files, created, restore, ends_storage) ==
    IF records = <<>> THEN [ret |-> "Ok", files |-> files, created |-> created]
    ELSE LET record == Head(records)
             file_path == <<<<STORAGE_DIR>>, <<record.path_checksum>>>>
         IN  IF ~HasChecksumLength(record.path_checksum) \/ ~FileAt(files, file_path)
             THEN ProcessRecords(Tail(records), files, created, restore, ends_storage)
             ELSE IF ~restore
             THEN ProcessRecords(Tail(records), files, created, restore, ends_storage)
             ELSE LET r == restore_file(files, file_path, record, ends_storage)
                  IN  IF r.ret # "Ok"
                      THEN [ret |-> r.ret, files |-> r.files, created |-> created]
                      ELSE ProcessRecords(Tail(records), r.files, created \cup r.created,
                                          restore, ends_storage)

MetadataFile == <<<<METADATA_PATH>>>>

\* What one run did: decrypt is the result of its call of decrypt_evidence,
\* or NotCalled; extracted tells whether it reached archive.extract.
NotCalled == "not called"
RunRecord(decrypt, extracted) == [decrypt |-> decrypt, extracted |-> extracted]

\* run(matches) on the report directory the collector left. private_key: the
\* key pair of the private key file; verify, restore: the flags;
\* ends_storage: the output directory given is named stored_files.
UnpackerRun(private_key, verify, restore, ends_storage) ==
    /\ upc = "idle"
    /\ calls.finish >= 1
    /\ Len(run_log) < MaxRuns
    /\ LET is_archived == fp.report_settings.zip_archive.enabled
           already_decrypted == /\ is_archived
                                /\ sidecar.algorithm # "None"
                                /\ is_valid_zip_archive(cfile)
           decrypts == ~already_decrypted /\ is_archived /\ sidecar.algorithm # "None"
           dec == IF decrypts THEN DecryptEvidence(cfile, private_key, sidecar)
                  ELSE [ret |-> "Ok", file |-> cfile]
           opened == ~is_archived \/ WellFormedZip(dec.file)
           files == IF is_archived THEN Extract(ArchiveEntries(dec.file))
                    ELSE { OutFile(<<<<STORAGE_DIR>>, <<n>>>>, stored_dir[n]) : n \in DOMAIN stored_dir }
                         \cup {OutFile(MetadataFile, csv_rows)}
           records == (CHOOSE f \in files : f.path = MetadataFile).content
           done == ProcessRecords(records, files, {}, restore, ends_storage /\ is_archived)
           has_meta == ~(is_archived /\ sidecar.algorithm = "absent")
       IN  /\ cfile' = dec.file
           /\ run_log' = Append(run_log,
                  RunRecord(IF decrypts /\ has_meta THEN dec.ret ELSE NotCalled,
                            is_archived /\ has_meta /\ dec.ret = "Ok" /\ opened))
           /\ IF is_archived /\ sidecar.algorithm = "absent"
              THEN /\ uret' = "Metadata file does not exist"
                   /\ UNCHANGED <<out_dir, outside>>
              ELSE IF dec.ret # "Ok"
              THEN /\ uret' = "Failed to decrypt archive"
                   /\ UNCHANGED <<out_dir, outside>>
              ELSE IF ~opened
              THEN /\ uret' = "panic"
                   /\ UNCHANGED <<out_dir, outside>>
              ELSE IF ~verify /\ ~restore
              THEN /\ uret' = "Ok"
                   /\ out_dir' = files
                   /\ UNCHANGED outside
              ELSE IF ~FileAt(files, MetadataFile)
              THEN /\ uret' = "Metadata file does not exist"
                   /\ out_dir' = files
                   /\ UNCHANGED outside
              ELSE /\ uret' = done.ret
                   /\ out_dir' = done.files
                   /\ outside' = { loc \in done.created : ~UnderStorage(loc) }
    /\ upc' = "done"
    /\ UNCHANGED tampers
    /\ UNCHANGED <<cpc, original, keypair, cipher_alg, sym_key, crypter, cursor,
                   position, buffer, meta, cret>>
    /\ UNCHANGED <<wfVars, sinkVars, validateVars, processVars, yaraVars, reportVars, handlerVars>>

PrivateKeys == {"public.pem", "other.pem"}

InitUnpack ==
    /\ IdleWorkflow
    /\ IdleCrypto
    /\ IdleUnpack
    /\ IdleValidate
    /\ IdleProcess
    /\ IdleYara
    /\ IdleReport
    /\ IdleHandler
    /\ \E settings \in SinkSettings :
          /\ settings.zip_archive.encryption.enabled => settings.zip_archive.enabled
          /\ fp = NewFileProcessor(settings,
                     IF settings.zip_archive.encryption.enabled THEN "public.pem" ELSE "none")
    /\ zip_entries = <<>>
    /\ zip_layers = 0
    /\ csv_rows = <<>>
    /\ csv_buffer = <<>>
    /\ disk = [p \in AllPaths |-> IF p = MISSING THEN Absent ELSE Bytes(p)]
    /\ stored_dir = <<>>
    /\ sidecar = NoSidecar
    /\ calls = [store |-> 0, store_ok |-> 0, finish |-> 0]
    /\ stored_ok = {}
    /\ last_call = NoCall

NextUnpack ==
    \/ \E file_path \in StorePaths \ {MISSING}, copy \in {"ok", "partial"} :
          calls.finish = 0 /\ Store(file_path, copy, "ok")
    \/ \E key_seed \in RandomSeeds :
          calls.finish = 0 /\ Finish(TRUE, key_seed, key_seed)
    \/ \E w \in TamperWrites : TamperArchive(w[1], w[2])
    \/ TamperTag
    \/ \E private_key \in PrivateKeys, verify \in BOOLEAN, restore \in BOOLEAN,
          ends_storage \in BOOLEAN :
          UnpackerRun(private_key, verify, restore, ends_storage)

SpecUnpack == InitUnpack /\ [][NextUnpack]_vars

\* The operator runs the unpacker once more on the same report directory,
\* with an output directory that does not exist yet (run returns at once
\* when the output directory exists, main.rs:129-135).
RunAgain ==
    /\ upc = "done"
    /\ Len(run_log) < MaxRuns
    /\ upc' = "idle"
    /\ out_dir' = {}
    /\ outside' = {}
    /\ UNCHANGED <<tampers, uret, run_log>>
    /\ UNCHANGED <<wfVars, sinkVars, cryptoVars, validateVars, processVars, yaraVars,
                   reportVars, handlerVars>>

\* Both ciphers are malleable: adding d to a byte of the ciphertext adds d to
\* the byte the decryption writes. The write that turns the records of the
\* collector into records of somebody else.
FlipRecords ==
    <<Len(ZIP_MAGIC),
      <<(cfile[Len(ZIP_MAGIC) + 1] + ForeignContent - CollectorContent) % 256>>>>

\* Repeated runs on one report directory; the third party writes to
\* report.zip before the first run only.
NextRerun ==
    \/ \E file_path \in {E1, L1} :
          calls.finish = 0 /\ Store(file_path, "ok", "ok")
    \/ \E key_seed \in RandomSeeds :
          calls.finish = 0 /\ Finish(TRUE, key_seed, key_seed)
    \/ \E w \in TamperWrites : run_log = <<>> /\ TamperArchive(w[1], w[2])
    \/ /\ run_log = <<>>
       /\ Len(cfile) > Len(ZIP_MAGIC)
       /\ TamperArchive(FlipRecords[1], FlipRecords[2])
    \/ \E private_key \in PrivateKeys, verify \in BOOLEAN, restore \in BOOLEAN :
          UnpackerRun(private_key, verify, restore, FALSE)
    \/ RunAgain

SpecRerun == InitUnpack /\ [][NextRerun]_vars

-----------------------------------------------------------------------------
(* actions/src/yara.rs: Yara::run                                          *)

\* files_to_scan after step 3: the Vec the HashSet was collected into, in the
\* order every rule batch scans it
YaraFiles == <<"f1", "f2">>

\* rules.scan_file(file, timeout): Err(e), or the matches of the file
ScanError == [error |-> TRUE, matches |-> 0]
ScanMatches(n) == [error |-> FALSE, matches |-> n]
ScanOutcomes == {ScanError} \cup { ScanMatches(n) : n \in 0..MaxMatches }

\* compile_yara_rules(rules_chunk): Err, or rules that make each file yield an
\* outcome
CompileFailed == [compiled |-> FALSE, scan |-> [f \in {"f1", "f2"} |-> ScanError]]
RuleBatches ==
    {CompileFailed}
    \cup { [compiled |-> TRUE, scan |-> o] : o \in [{"f1", "f2"} -> ScanOutcomes] }

\* FileScanResult; the identifier of a match is its rule batch and number
FileScanResult(original_path, indentifier, error) ==
    [original_path |-> original_path, indentifier |-> indentifier, error |-> error]

\* match_ in result: one row per match (lines 78-87)
MatchRows(file, batch, n) ==
    [m \in 1..n |-> FileScanResult(file, <<batch, m>>, FALSE)]

\* scan_files_with_rules (lines 40-90): for each file one error row, or one
\* row per match.
RECURSIVE scan_files_with_rules(_, _, _, _)
scan_files_with_rules(rules, batch, files, i) ==
    IF i > Len(files) THEN <<>>
    ELSE LET file == files[i]
             rows == IF rules.scan[file].error
                     THEN << FileScanResult(file, <<>>, TRUE) >>
                     ELSE MatchRows(file, batch, rules.scan[file].matches)
         IN  rows \o scan_files_with_rules(rules, batch, files, i + 1)

\* Step 5 (lines 200-227): the rows of every rule batch, in batch order; a
\* batch that does not compile contributes none.
RECURSIVE ScanResults(_, _, _)
ScanResults(batches, files, b) ==
    IF b > Len(batches) THEN <<>>
    ELSE (IF batches[b].compiled THEN scan_files_with_rules(batches[b], b, files, 1) ELSE <<>>)
         \o ScanResults(batches, files, b + 1)

\* Step 6 (lines 229-256): for result in &scan_results. A row whose path is
\* in already_stored is skipped; otherwise the file is handed to
\* file_processor.store when store_on_match is set and the row is no error
\* row, and the path is inserted into already_stored in either case. Returns
\* the paths handed to store.
RECURSIVE StoreMatches(_, _, _, _, _)
StoreMatches(results, i, store_on_match, already_stored, stored) ==
    IF i > Len(results) THEN stored
    ELSE LET result == results[i]
         IN  IF result.original_path \in already_stored
             THEN StoreMatches(results, i + 1, store_on_match, already_stored, stored)
             ELSE StoreMatches(results, i + 1, store_on_match,
                      already_stored \cup {result.original_path},
                      IF store_on_match /\ ~result.error
                      THEN Append(stored, result.original_path) ELSE stored)

\* Yara::run (lines 95-268)
YaraRun ==
    /\ ypc = "ready"
    /\ ypc' = "done"
    /\ IF ~yscan.created
       THEN /\ yret' = error_result("Failed to create metadata file")
            /\ UNCHANGED <<scan_results, forwarded>>
       ELSE IF yscan.files_to_scan = <<>>
       THEN /\ yret' = error_result("No files to scan provided")
            /\ UNCHANGED <<scan_results, forwarded>>
       ELSE IF yscan.rules = <<>>
       THEN /\ yret' = error_result("No rules provided")
            /\ UNCHANGED <<scan_results, forwarded>>
       ELSE LET results == ScanResults(yscan.rules, yscan.files_to_scan, 1)
            IN  /\ scan_results' = results
                /\ forwarded' = StoreMatches(results, 1, yscan.store_on_match, {}, <<>>)
                /\ yret' = ActionResult(TRUE, FALSE, TRUE, "")
    /\ UNCHANGED yscan
    /\ UNCHANGED <<wfVars, sinkVars, cryptoVars, unpackVars, validateVars, processVars, reportVars, handlerVars>>

\* The YARA actions run: store_on_match either way, files found or not, and
\* up to MaxBatches batches of rule files.
InitYara ==
    /\ IdleWorkflow
    /\ IdleSink
    /\ IdleCrypto
    /\ IdleUnpack
    /\ IdleValidate
    /\ ppc = "idle" /\ pkind = "binary" /\ poptions = [timeout |-> 0, parallel |-> FALSE]
    /\ clock = 0 /\ procs = [p \in 1..MaxProcs |-> NoProcess]
    /\ presult = NoResult /\ pexit_code = 0
    /\ IdleReport
    /\ IdleHandler
    /\ ypc = "ready"
    /\ \E store_on_match \in BOOLEAN, created \in BOOLEAN, files \in {<<>>, YaraFiles},
          batches \in SeqsUpTo(RuleBatches, MaxBatches) :
          yscan = [store_on_match |-> store_on_match, created |-> created,
                   files_to_scan |-> files, rules |-> batches]
    /\ scan_results = <<>>
    /\ forwarded = <<>>
    /\ yret = NoResult

NextYara == YaraRun

SpecYara == InitYara /\ [][NextYara]_vars

-----------------------------------------------------------------------------
(* report/src/lib.rs: Report::new, remove_dir_if_empty, Drop for Report    *)

\* the directories Drop looks at: self.loot_dir and self.action_log_dir
ReportDirs == {LOOT_DIR, ACTION_LOG_DIR}

\* names of the files and directories that may lie in one of them
Entries == 1..MaxEntries

NoDir == [exists |-> FALSE, entries |-> {}]
EmptyDir == [exists |-> TRUE, entries |-> {}]

\* the calls of remove_dir_if_empty that can fail: dir.read_dir() and
\* fs::remove_dir(&dir)
DropCalls == ReportDirs \X {"read_dir", "remove_dir"}

\* fs::remove_dir_all in place of the test: the directory goes with its content.
remove_dir_if_empty_All(dir, fs, failed) ==
    IF <<dir, "remove_dir">> \in failed THEN fs ELSE [fs EXCEPT ![dir] = NoDir]

\* remove_dir_if_empty (lines 106-125): a directory that cannot be read (it
\* does not exist, or read_dir fails) is left alone with a warning; an empty
\* one is removed, and a failure of remove_dir is only logged.
remove_dir_if_empty(dir, fs, failed) ==
    IF ~fs[dir].exists \/ <<dir, "read_dir">> \in failed THEN fs
    ELSE IF fs[dir].entries = {}
         THEN IF <<dir, "remove_dir">> \in failed THEN fs ELSE [fs EXCEPT ![dir] = NoDir]
    ELSE fs

\* A file or directory is created in loot_files/ or action_output/ while the
\* report is in use (loot written by an action, a log of an action).
CreateEntry(dir, e) ==
    /\ rpc = "live"
    /\ rfs[dir].exists
    /\ e \notin rfs[dir].entries
    /\ rfs' = [rfs EXCEPT ![dir].entries = @ \cup {e}]
    /\ UNCHANGED <<rpc, report, rdrop>>
    /\ UNCHANGED <<wfVars, sinkVars, cryptoVars, unpackVars, validateVars, processVars, yaraVars, handlerVars>>

\* One is removed again (the sweep of finish moves it into report.zip).
RemoveEntry(dir, e) ==
    /\ rpc = "live"
    /\ e \in rfs[dir].entries
    /\ rfs' = [rfs EXCEPT ![dir].entries = @ \ {e}]
    /\ UNCHANGED <<rpc, report, rdrop>>
    /\ UNCHANGED <<wfVars, sinkVars, cryptoVars, unpackVars, validateVars, processVars, yaraVars, handlerVars>>

\* Drop for Report (lines 127-143); failed: the calls that return an error.
DropReport(failed) ==
    /\ rpc = "live"
    /\ rpc' = "dropped"
    /\ rdrop' = [before |-> rfs, failed |-> failed]
    /\ rfs' = IF ~report.archive_enabled THEN rfs
              ELSE remove_dir_if_empty(ACTION_LOG_DIR,
                       remove_dir_if_empty(LOOT_DIR, rfs, failed), failed)
    /\ UNCHANGED report
    /\ UNCHANGED <<wfVars, sinkVars, cryptoVars, unpackVars, validateVars, processVars, yaraVars, handlerVars>>

\* After Report::new (lines 27-87): both directories were just created.
InitReport ==
    /\ IdleWorkflow
    /\ IdleSink
    /\ IdleCrypto
    /\ IdleUnpack
    /\ IdleValidate
    /\ ppc = "idle" /\ pkind = "binary" /\ poptions = [timeout |-> 0, parallel |-> FALSE]
    /\ clock = 0 /\ procs = [p \in 1..MaxProcs |-> NoProcess]
    /\ presult = NoResult /\ pexit_code = 0
    /\ IdleYara
    /\ IdleHandler
    /\ rpc = "live"
    /\ \E archive_enabled \in BOOLEAN : report = [archive_enabled |-> archive_enabled]
    /\ rfs = [d \in ReportDirs |-> EmptyDir]
    /\ rdrop = [before |-> rfs, failed |-> {}]

NextReport ==
    \/ \E dir \in ReportDirs, e \in Entries : CreateEntry(dir, e)
    \/ \E dir \in ReportDirs, e \in Entries : RemoveEntry(dir, e)
    \/ \E failed \in SUBSET DropCalls : DropReport(failed)

SpecReport == InitReport /\ [][NextReport]_vars

-----------------------------------------------------------------------------
(* workflow/src/handler.rs: WorkflowHandler::run, the loop over the files  *)

\* How far the body of the loop gets for one workflow file.
\* "init": Workflow::init fails (lines 34-40); "conditions": the launch
\* conditions are not met (43-49); "report": Report::new fails (54-61);
\* "sink": FileProcessor::new fails (64-70); "key": encryption is enabled
\* and load_public_key fails (87-95); "ran": workflow.run returns;
\* "panic": workflow.run panics.
FileOutcomes == {"init", "conditions", "report", "sink", "key", "ran", "panic"}

Pending == [outcome |-> "pending", report |-> FALSE, sink |-> FALSE, run |-> "none",
            finish_calls |-> 0, finish_after_run |-> FALSE]

\* One iteration of `for file in &self.workflow_files`. run_ret: what
\* workflow.run returns; the result of fp.finish() is only logged.
HandleFile(outcome, run_ret) ==
    /\ hpc = "loop"
    /\ \E i \in 1..Len(hfiles) :
          /\ hfiles[i] = Pending
          /\ \A k \in 1..(i - 1) : hfiles[k] # Pending
          /\ LET ran == outcome = "ran"
                 called == outcome \in {"ran", "panic"}
             IN  hfiles' = [hfiles EXCEPT ![i] =
                    [outcome |-> outcome,
                     report |-> outcome \in {"sink", "key", "ran", "panic"},
                     sink |-> outcome \in {"key", "ran", "panic"},
                     run |-> IF ran THEN run_ret ELSE IF called THEN "panic" ELSE "none",
                     finish_calls |-> IF ran THEN 1 ELSE 0,
                     finish_after_run |-> ran]]
    /\ hpc' = IF outcome = "panic" THEN "panicked" ELSE "loop"
    /\ UNCHANGED <<wfVars, sinkVars, cryptoVars, unpackVars, validateVars, processVars,
                   yaraVars, reportVars>>

\* The list is exhausted (or was empty, lines 26-29): run returns.
HandlerReturn ==
    /\ hpc = "loop"
    /\ \A i \in 1..Len(hfiles) : hfiles[i] # Pending
    /\ hpc' = "returned"
    /\ UNCHANGED hfiles
    /\ UNCHANGED <<wfVars, sinkVars, cryptoVars, unpackVars, validateVars, processVars,
                   yaraVars, reportVars>>

InitHandler ==
    /\ IdleWorkflow
    /\ IdleSink
    /\ IdleCrypto
    /\ IdleUnpack
    /\ IdleValidate
    /\ IdleProcess
    /\ IdleYara
    /\ IdleReport
    /\ hpc = "loop"
    /\ \E n \in 0..MaxFiles : hfiles = [i \in 1..n |-> Pending]

NextHandler ==
    \/ \E outcome \in FileOutcomes, run_ret \in {"Ok", "Err"} : HandleFile(outcome, run_ret)
    \/ HandlerReturn

SpecHandler == InitHandler /\ [][NextHandler]_vars

-----------------------------------------------------------------------------
(* Properties of the workflow engine                                       *)

NumSteps == Len(runner.workflow)

\* The step loop has just handled the result of a step it ran or pushed.
LoopHandled == Len(visited') = Len(visited) + 1

\* The drain loop has just handled a ready output.
DrainHandled == Len(completed') = Len(completed) - 1

FailedSequential(l) ==
    /\ l.result.finished
    /\ ~l.item.parallel
    /\ ~l.result.success

\* C1: when a non-parallel step finishes with success = false and its
\* on_error is abort, run returns an error at once: current_step is not
\* advanced, the failing step is the last one started, no future of the pool
\* is polled or handled, and nothing moves after the return.
C1_AbortReturnsAtOnce ==
    [][ /\ (LoopHandled /\ FailedSequential(last') /\ last'.item.on_error = Abort)
            => /\ pc' = "err"
               /\ err_msg' = "Aborting workflow"
               /\ current_step' = current_step
               /\ started' = Append(started, current_step)
               /\ completed' = completed
               /\ \A i \in 1..Len(futures') : futures'[i].status = "dropped"
        /\ (pc = "err" /\ err_msg = "Aborting workflow")
            => UNCHANGED <<current_step, visited, started, futures, completed, pc>>
      ]_vars

\* Witness of C1: run aborted while a parallel step was waiting in the pool.
C1_Witness ==
    /\ pc = "err"
    /\ err_msg = "Aborting workflow"
    /\ futures # <<>>
    /\ FailedSequential(last) /\ last.item.on_error = Abort

\* C2: when a non-parallel step fails with on_error = goto(name),
\* current_step becomes the index of the first step whose action is name
\* (before or after the failing step) and the loop goes on from there, the
\* step at current_step being the one each iteration dispatches; when no step
\* has that action run returns an error and nothing further is executed.
C2_GotoFirstMatch ==
    [][ /\ (LoopHandled /\ FailedSequential(last') /\ last'.item.on_error.kind = "goto")
            => LET hits == { j \in 0..(NumSteps - 1) :
                               runner.workflow[j + 1].action = last'.item.on_error.goto }
               IN  IF hits # {}
                   THEN /\ current_step' \in hits
                        /\ \A h \in hits : current_step' <= h
                        /\ pc' = "loop"
                   ELSE /\ pc' = "err"
                        /\ err_msg' = "Step not found"
                        /\ current_step' = current_step
        /\ LoopHandled => visited' = Append(visited, current_step)
        /\ (pc = "err" /\ err_msg = "Step not found")
            => UNCHANGED <<current_step, visited, started, futures, completed, pc>>
      ]_vars

\* Witness of C2: the loop jumped back to a step whose action occurs again
\* later in the workflow, and dispatched that first occurrence.
C2_Witness ==
    \E k \in 1..(Len(visited) - 1) :
        /\ visited[k + 1] <= visited[k]
        /\ \E j \in 1..NumSteps :
              /\ j - 1 > visited[k + 1]
              /\ runner.workflow[j].action = runner.workflow[visited[k + 1] + 1].action

\* C3: in a run where no step triggers goto or abort (every step succeeds or
\* fails with on_error = continue) the steps are started in index order
\* 0..N-1, each exactly once, every visit advances current_step by one, and
\* run returns Ok.
C3_InOrderEachOnce ==
    [][ /\ (LoopHandled /\ ~triggered') => current_step' = current_step + 1
        /\ (pc' \in {"ok", "err"} /\ ~triggered' /\ err_msg' # "Action not found")
            => /\ pc' = "ok"
               /\ started' = [i \in 1..NumSteps |-> i - 1]
      ]_vars

\* C4: a parallel step has its action started at the moment the step is
\* visited, so every future in the pool has been started; its result is
\* collected only after the step loop.
C4_ParallelStartsWhenVisited ==
    /\ \A i \in 1..Len(futures) : futures[i].status # "pending"
    /\ last.phase = "drain" => pc # "loop"

\* C5 as claimed: whenever finish() has been called, every parallel task of
\* the workflow has completed.
C5_AllCompleteBeforeFinish ==
    finish_called => \A i \in 1..Len(futures) : futures[i].status = "handled"

\* C5 amended: finish() is never called while a parallel action is running
\* or waiting to run; when run returned Ok every parallel task completed and
\* was handled, when run returned an error the tasks left in the pool were
\* dropped with the pool, none of them ever started.
C5_NoneInFlightAtFinish ==
    finish_called =>
        /\ \A i \in 1..Len(futures) : futures[i].status \in {"handled", "dropped"}
        /\ pc = "ok" => \A i \in 1..Len(futures) : futures[i].status = "handled"
        /\ pc = "err" =>
              \A i \in 1..Len(futures) :
                  /\ futures[i].status = "dropped"
                  /\ \A k \in 1..Len(started) : started[k] # futures[i].step

\* Witness of C5: finish() called after a run whose pool held a task.
C5_Witness ==
    /\ finish_called
    /\ pc = "ok"
    /\ futures # <<>>

\* C6: for a validated workflow the completion of a parallel step never
\* applies the error policy, whatever its result: handling it never makes
\* run return an error, never jumps and never waits for a keypress; it
\* increments current_step by one.
C6_ParallelCompletionOnlyAdvances ==
    [][ DrainHandled =>
            /\ pc' # "err"
            /\ current_step' = current_step + 1
            /\ keypresses' = keypresses
      ]_vars

\* Witness of C6: a drained completion built by error_result! (parallel =
\* false, success = false), which reaches the on_error match.
C6_Witness ==
    /\ last.phase = "drain"
    /\ ~last.result.success
    /\ ~last.result.parallel
    /\ last.result.error_message = "Process timed out"

-----------------------------------------------------------------------------
(* Properties of the evidence sink                                         *)

StoreReturned == calls'.store = calls.store + 1

\* no two entries of report.zip carry the same name
OneEntryPerName(entries) ==
    \A i, j \in 1..Len(entries) : entries[i].name = entries[j].name => i = j

\* C7: after any sequence of store calls the report holds at most one entry
\* per path_checksum, and a store of a file outside the loot directory whose
\* path_checksum was already stored successfully fails, writes no bytes, adds
\* no CSV row and leaves the added-files set unchanged.
C7_Deduplication ==
    [][ /\ OneEntryPerName(zip_entries')
        /\ ( /\ StoreReturned
             /\ ~InLootDir(last_call'.path)
             /\ file_name_checksum(last_call'.path) \in stored_ok )
           => /\ last_call'.ret # "Ok"
              /\ zip_entries' = zip_entries
              /\ stored_dir' = stored_dir
              /\ csv_rows' = csv_rows
              /\ csv_buffer' = csv_buffer
              /\ fp'.added_files = fp.added_files ]_vars

\* a second store of a stored file was refused as a duplicate, with and
\* without the archive
C7_Witness ==
    /\ last_call.op = "store"
    /\ last_call.ret = "File already added to the archive"
    /\ file_name_checksum(last_call.path) \in stored_ok
    /\ calls.store_ok >= 1
    /\ Len(zip_entries) + Cardinality(DOMAIN stored_dir) >= 1

\* C8: the number of rows in metadata.csv equals the number of store calls
\* that returned Ok.
C8_RowPerOkStore == Len(csv_rows) = calls.store_ok

\* C9: a second call to finish on the same sink fails.
C9_SecondFinishFails ==
    (last_call.op = "finish" /\ calls.finish >= 2) => last_call.ret # "Ok"

-----------------------------------------------------------------------------
(* Properties of the encryption                                            *)

\* C10: for every file content, of any length, and each of AES-128-GCM and
\* CHACHA20-POLY1305, decrypt_evidence applied to the result of
\* encrypt_evidence with the matching private key and the returned wrapped
\* key, iv and tag succeeds and leaves the file byte-identical to the
\* original.
C10_RoundTrip ==
    ( /\ cpc = "decrypted"
      /\ keypair.private = keypair.public
      /\ cipher_alg \in {"AES-128-GCM", "CHACHA20-POLY1305"} )
    => /\ cret = "Ok"
       /\ cfile = original

\* a file longer than one block whose length is not a multiple of the block
\* size was encrypted to different bytes and decrypted back
C10_Witness ==
    /\ cpc = "decrypted"
    /\ keypair.private = keypair.public
    /\ cipher_alg = "CHACHA20-POLY1305"
    /\ Len(original) > BlockSize
    /\ Len(original) % BlockSize # 0
    /\ crypter.seen # original
    /\ cret = "Ok"
    /\ cfile = original

-----------------------------------------------------------------------------
(* Properties of the unpacker                                              *)

\* the collector encrypted report.zip once and wrote the sidecar
EncryptedReport == zip_layers = 1 /\ sidecar.algorithm \notin {"None", "absent"}

\* C11: if bytes of the encrypted report.zip or of the tag in the sidecar
\* are changed after encryption, the unpacker run fails and extracts no file
\* into the output directory.
C11_TamperDetected ==
    (upc = "done" /\ EncryptedReport /\ tampers >= 1)
        => (uret # "Ok" /\ out_dir = {})

\* where a stored file of the collector belongs after the restore: below
\* stored_files, one directory per component of its original path, spaces
\* as underscores
RestoredPath(p) ==
    IF p.area = "system"
    THEN <<<<STORAGE_DIR>>, <<"tmp", "_", "dir">>, <<p.name>>>>
    ELSE <<<<STORAGE_DIR>>, <<"report">>, <<p.area>>, <<p.name>>>>

\* the report was written with archive, encryption and checksums and nobody
\* touched it since
UntamperedFullReport ==
    /\ EncryptedReport
    /\ fp.report_settings.metadata.checksums
    /\ tampers = 0

\* the row's file was stored under its path checksum
StoredRow(row) == HasEntry(zip_entries, ZipName(STORAGE_DIR, row.path_checksum))

-----------------------------------------------------------------------------
(* Properties of the validator                                             *)

\* the index of the action a step references, 0 when no action has the name
Referenced(r, i) == FindAction(r.actions, r.workflow[i].action)

UniqueNames(actions) ==
    \A j, k \in 1..Len(actions) : actions[j].name = actions[k].name => j = k

\* what the data model asks of a parallel step
ParallelRule(r, i) ==
    LET item == r.workflow[i]
        j == Referenced(r, i)
    IN  item.parallel =>
            /\ j # 0
            /\ r.actions[j].action_type \in {"binary", "command", "terminal"}
            /\ r.actions[j].action_type \in {"binary", "command"} =>
                    r.actions[j].attributes.log_to_file
            /\ item.on_error = Continue
            /\ ~item.continue_after_keypress

\* C14: after validate returned Ok, every step with parallel = true
\* references a binary, command or terminal action, has on_error = continue
\* and continue_after_keypress = false, and a referenced binary or command
\* action has log_to_file = true.
C14_ParallelSteps ==
    (vcalls >= 1 /\ vret = "Ok") => \A i \in 1..Len(vrunner.workflow) : ParallelRule(vrunner, i)

\* the invariants of the data model, read in favour of the validator: a
\* custom_command has a predicate, encryption off goes with algorithm None,
\* a parallel terminal step opens its own window
SatisfiesInvariants(r) ==
    /\ {"title", "version"} \subseteq r.properties
    /\ UniqueNames(r.actions)
    /\ r.launch_conditions.custom_command.some =>
            \/ r.launch_conditions.custom_command.contains_any
            \/ r.launch_conditions.custom_command.contains_all
            \/ r.launch_conditions.custom_command.contains_regex
    /\ \A i \in 1..Len(r.workflow) :
            /\ Referenced(r, i) # 0
            /\ ParallelRule(r, i)
            /\ r.workflow[i].parallel /\ r.actions[Referenced(r, i)].action_type = "terminal" =>
                    r.actions[Referenced(r, i)].attributes.separate_window
            /\ r.workflow[i].timeout > 0 =>
                    r.actions[Referenced(r, i)].action_type \in {"binary", "command"}
    /\ \A j \in 1..Len(r.actions) :
            r.actions[j].action_type = "terminal" =>
                /\ r.actions[j].attributes.wait \/ r.actions[j].attributes.separate_window
                /\ r.actions[j].attributes.enable_transcript => r.actions[j].attributes.wait
    /\ ~r.reporting.zip_archive.enabled =>
            /\ ~r.reporting.zip_archive.encryption.enabled
            /\ ~r.reporting.zip_archive.compression.enabled
    /\ ~r.reporting.zip_archive.encryption.enabled =>
            r.reporting.zip_archive.encryption.algorithm = "None"

\* C15: validate on a workflow that satisfies every invariant of the data
\* model returns Ok, reports no conflict and changes no field.
C15_ValidIsNoOp ==
    (vcalls = 1 /\ SatisfiesInvariants(vbefore))
        => (vret = "Ok" /\ vconflicts = <<>> /\ vrunner = vbefore)

\* C16: a call of validate on the result of a call that returned Ok reports
\* no conflict and changes no field.
C16_Idempotent ==
    [][(vcalls >= 1 /\ vret = "Ok" /\ RunValidate)
        => (vret' = "Ok" /\ vconflicts' = <<>> /\ vrunner' = vrunner)]_vars

\* the second call ran on a workflow the first call had repaired: a store
\* step written as parallel, with a timeout and a keypress
C16_Witness ==
    /\ vcalls = 2
    /\ vret = "Ok"
    /\ \E i \in 1..Len(vrunner.workflow) :
          vrunner.workflow[i] = WorkflowItem("s", Abort, FALSE, 0, FALSE)
    /\ vrunner.actions[1].attributes.log_to_file
    /\ vrunner.actions[3].attributes.wait

\* C17: validate returns an error exactly when title or version is missing
\* or two actions share a name; with any other conflict it returns Ok.
C17_FatalExactly ==
    vcalls >= 1 =>
        (vret # "Ok" <=> \/ "title" \notin vbefore.properties
                         \/ "version" \notin vbefore.properties
                         \/ ~UniqueNames(vbefore.actions))

\* validate returned an error for a missing version, on a workflow with
\* conflicts it repaired as well
C17_Witness ==
    /\ vcalls = 1
    /\ vret # "Ok"
    /\ vbefore.properties = {"title"}
    /\ UniqueNames(vbefore.actions)
    /\ Len(vconflicts) >= 3
    /\ vrunner # vbefore

\* C18: a workflow with a step whose action name matches no action is
\* rejected: validate, and with it read_workflow_file, returns an error.
C18_UnknownActionRejected ==
    (vcalls >= 1 /\ \E i \in 1..Len(vbefore.workflow) : Referenced(vbefore, i) = 0)
        => vret # "Ok"

\* C19: after validate returned Ok, archive disabled implies encryption and
\* compression disabled, and encryption enabled implies archive enabled.
C19_ReportingPolicy ==
    (vcalls >= 1 /\ vret = "Ok") =>
        LET zip_archive == vrunner.reporting.zip_archive
        IN  /\ ~zip_archive.enabled =>
                    (~zip_archive.encryption.enabled /\ ~zip_archive.compression.enabled)
            /\ zip_archive.encryption.enabled => zip_archive.enabled

\* validate returned Ok on a policy written with the archive disabled and
\* encryption and compression enabled
C19_Witness ==
    /\ vcalls = 1
    /\ vret = "Ok"
    /\ ~vbefore.reporting.zip_archive.enabled
    /\ vbefore.reporting.zip_archive.encryption.enabled
    /\ vbefore.reporting.zip_archive.compression.enabled
    /\ ~vrunner.reporting.zip_archive.encryption.enabled

-----------------------------------------------------------------------------
(* Properties of the binary and command runners                            *)

\* the run ended in the timeout arm
TimedOut == ppc = "done" /\ presult.error_message = TimeoutMessage(pkind)

\* what the action returns after a timeout
TimeoutResult ==
    /\ presult.finished
    /\ ~presult.success
    /\ pexit_code # 0
    /\ poptions.timeout > 0
    /\ clock = poptions.timeout

\* with timeout 0 the runner is waiting for as long as the process runs
WaitsWithoutLimit ==
    (ppc # "idle" /\ poptions.timeout = 0 /\ procs[Leader].state = "alive") => ppc = "waiting"

\* C20: after a timeout the action returns finished, without success, with
\* a non-zero exit code and the message of its kind, and no descendant of
\* the spawned process is alive; with timeout 0 the runner waits without
\* limit.
C20_TimeoutKillsTree ==
    /\ TimedOut => (TimeoutResult /\ \A p \in 1..MaxProcs : procs[p].state # "alive")
    /\ WaitsWithoutLimit

\* C20, as the code has it: after a timeout the spawned process and every
\* descendant that stayed in its process group are dead.
C20_TimeoutKillsGroup ==
    /\ TimedOut =>
          /\ TimeoutResult
          /\ \A p \in 1..MaxProcs : procs[p].state = "alive" => procs[p].group = "own"
          /\ procs[Leader].state = "dead"
    /\ WaitsWithoutLimit

\* a command timed out after two seconds; one descendant was killed with
\* it, one had left the group and is alive
C20_Witness ==
    /\ TimedOut
    /\ pkind = "command"
    /\ poptions.timeout = 2
    /\ procs[2].state = "dead" /\ procs[2].group = "leader" /\ procs[2].code = 137
    /\ procs[3].state = "alive" /\ procs[3].group = "own"

-----------------------------------------------------------------------------
(* Properties of the goto workflows A, B, C                                *)

\* index of the step of a goto workflow that runs the action of that name
GotoStep(name) == CHOOSE i \in 0..(NumSteps - 1) : runner.workflow[i + 1].action = name

StepA == GotoStep("a")
StepB == GotoStep("c")
StepC == GotoStep("s")

\* The visit at position k of a run was a re-entry of A after a jump from B
\* that A completed with success: under on_error = abort only a success of A
\* lets another visit follow.
ReentrySucceeded(k) ==
    /\ visited[k] = StepB
    /\ visited[k + 1] = StepA
    /\ k + 1 < Len(visited)
    /\ runner.workflow[StepA + 1].on_error = Abort

\* C21 as claimed: once B has failed with on_error = goto(A) and A has
\* succeeded on re-entry, the run goes through B and C and returns Ok.
C21_OkOnceTargetSucceeds ==
    \A k \in 1..(Len(visited) - 1) :
        ReentrySucceeded(k) =>
            /\ \A j \in (k + 2)..Len(visited) : visited[j] = j - k - 1
            /\ pc # "err"
            /\ Len(visited) = k + 3 => pc = "ok"

\* C21 amended: when B fails with on_error = goto(A) after A has run, the
\* next step executed is A and execution proceeds in order from A, B being
\* executed again after A; run returns Ok when the visit of C completes,
\* which needs A and then B to complete without taking goto or abort: a B
\* that fails again jumps back to A again.
C21_GotoResumesAtTarget ==
    [][ LoopHandled =>
            /\ visited' = Append(visited, current_step)
            /\ (last'.step = StepB /\ FailedSequential(last')
                                    /\ last'.item.on_error = Goto("a"))
                  => /\ StepA \in { visited[k] : k \in 1..Len(visited) }
                     /\ current_step' = StepA
                     /\ pc' = "loop"
            /\ ~TakesErrorArm(last'.result, last'.item)
                  => current_step' = current_step + 1
            /\ pc' = "ok" <=> (last'.step = StepC /\ ~TakesErrorArm(last'.result, last'.item))
            /\ pc' = "err" => (last'.step = StepA /\ FailedSequential(last'))
      ]_vars

\* Witness of C21: B failed once, A succeeded on re-entry, B and C then
\* completed and run returned Ok.
C21_Witness ==
    /\ pc = "ok"
    /\ visited = <<StepA, StepB, StepA, StepB, StepC>>
    /\ runner.workflow[StepA + 1].on_error = Abort

\* B failed on the visit at position k of the run: the next iteration did not
\* go on to C, or the visit is the last one made and its result is a failure.
FailedVisitOfB(k) ==
    IF k < Len(visited) THEN visited[k + 1] <= StepB
    ELSE last.step = StepB /\ FailedSequential(last)

-----------------------------------------------------------------------------
(* Properties of the keypress barrier                                      *)

\* The handled step is non-parallel, has continue_after_keypress set and
\* completed: with success, or with a failure that on_error = continue or a
\* goto to an existing step took care of.
CompletedWithBarrier(l, workflow) ==
    /\ l.phase = "loop"
    /\ ~l.item.parallel
    /\ l.item.continue_after_keypress
    /\ l.result.finished
    /\ \/ l.result.success
       \/ l.item.on_error = Continue
       \/ /\ l.item.on_error.kind = "goto"
          /\ \E j \in 1..Len(workflow) : workflow[j].action = l.item.on_error.goto

\* C29: handling the result of a non-parallel step that has
\* continue_after_keypress set and completed waits for exactly one keystroke
\* before the loop goes on; nothing else waits for a keystroke: not a
\* parallel step, neither when it is pushed nor when it is drained, and not
\* a step whose failure makes run return.
C29_KeypressBarrier ==
    [][ /\ (LoopHandled /\ CompletedWithBarrier(last', runner.workflow))
            => /\ keypresses' = keypresses + 1
               /\ pc' # "err"
        /\ ~(LoopHandled /\ CompletedWithBarrier(last', runner.workflow))
            => keypresses' = keypresses
        /\ ((LoopHandled \/ DrainHandled) /\ last'.item.parallel)
            => keypresses' = keypresses
        /\ (pc # "err" /\ pc' = "err") => keypresses' = keypresses
      ]_vars

\* Witness of C29: the engine waited for a keystroke after a failure that
\* goto handled, and went on with the loop.
C29_Witness ==
    /\ keypresses >= 1
    /\ pc = "loop"
    /\ last.phase = "loop"
    /\ FailedSequential(last)
    /\ last.item.continue_after_keypress
    /\ last.item.on_error.kind = "goto"

-----------------------------------------------------------------------------
(* Properties of the command runner's assertion                            *)

\* workflow/src/runner.rs, lines 49-68 and 123-164: what the engine hands to
\* ShellCommand::run for the steps of a runner. The action is the first one
\* of the step's name, the options are built from the step, the attributes
\* are the action's; a step on an action of another type, or whose
\* attributes are not command attributes, never reaches the command runner.
CommandInvocations(self) ==
    { [options |-> ActionOptions(self.workflow[i]),
       command |-> self.actions[FindAction(self.actions, self.workflow[i].action)].attributes] :
      i \in { k \in 1..Len(self.workflow) :
                LET j == FindAction(self.actions, self.workflow[k].action)
                IN  /\ j # 0
                    /\ self.actions[j].action_type = "command"
                    /\ self.actions[j].attributes.variant = "command" } }

\* actions/src/command.rs, line 61:
\* assert_ne!(options.parallel && !command.log_to_file, true)
CommandAssertion(options, command) ==
    (options.parallel /\ ~command.log_to_file) # TRUE

\* C30: for every workflow accepted by validate the assertion of the command
\* runner holds at every command invocation the engine can make: no command
\* action is run with parallel = true and log_to_file = false.
C30_CommandAssertionHolds ==
    vret = "Ok" =>
        \A inv \in CommandInvocations(vrunner) : CommandAssertion(inv.options, inv.command)

\* Witness of C30: validate accepted a workflow file in which a parallel step
\* ran a command action without log_to_file, and the engine now runs that
\* step in parallel with log_to_file set.
C30_Witness ==
    /\ vret = "Ok"
    /\ \E inv \in CommandInvocations(vbefore) : ~CommandAssertion(inv.options, inv.command)
    /\ \E inv \in CommandInvocations(vrunner) : inv.options.parallel /\ inv.command.log_to_file

-----------------------------------------------------------------------------
(* Properties of the YARA action                                           *)

\* the files that have a row without error among the scan results
MatchedFiles ==
    { scan_results[i].original_path :
        i \in { k \in 1..Len(scan_results) : ~scan_results[k].error } }

\* C22: for a YARA action with store_on_match, whatever rows the rule batches
\* produced and in whatever order, every file that has at least one non-error
\* match is forwarded to the sink, no file is forwarded twice, and a file
\* that has only error rows is not forwarded.
C22_MatchedFilesForwarded ==
    (ypc = "done" /\ yret.success /\ yscan.store_on_match) =>
        /\ \A f \in MatchedFiles : \E i \in 1..Len(forwarded) : forwarded[i] = f
        /\ \A i, j \in 1..Len(forwarded) : forwarded[i] = forwarded[j] => i = j
        /\ \A i \in 1..Len(forwarded) : forwarded[i] \in MatchedFiles

-----------------------------------------------------------------------------
(* Properties of the report directory                                      *)

\* drop removed the directory
Removed(dir) == rdrop.before[dir].exists /\ ~rfs[dir].exists

\* C23 as claimed: when a Report is dropped with archive enabled, loot_files/
\* and action_output/ are each removed exactly when empty, and a non-empty
\* one is retained with its content; with archive disabled neither is
\* removed.
C23_RemovedExactlyWhenEmpty ==
    rpc = "dropped" =>
        IF report.archive_enabled
        THEN \A dir \in ReportDirs :
                /\ Removed(dir) <=> rdrop.before[dir].entries = {}
                /\ rdrop.before[dir].entries # {} => rfs[dir] = rdrop.before[dir]
        ELSE rfs = rdrop.before

\* C23 amended: with archive enabled each of the two directories is removed
\* exactly when it is empty and both read_dir and remove_dir succeed on it;
\* an empty directory on which one of them fails stays, with a warning in
\* the log; a directory that is not removed keeps its content. With archive
\* disabled neither is touched.
C23_RemovedWhenEmptyAndRemovable ==
    rpc = "dropped" =>
        IF report.archive_enabled
        THEN \A dir \in ReportDirs :
                /\ Removed(dir) <=>
                      /\ rdrop.before[dir].entries = {}
                      /\ <<dir, "read_dir">> \notin rdrop.failed
                      /\ <<dir, "remove_dir">> \notin rdrop.failed
                /\ ~Removed(dir) => rfs[dir] = rdrop.before[dir]
        ELSE rfs = rdrop.before

\* Witness of C23: a drop that removed the empty loot_files/ and kept
\* action_output/ with the files in it.
C23_Witness ==
    /\ rpc = "dropped"
    /\ report.archive_enabled
    /\ Removed(LOOT_DIR)
    /\ rfs[ACTION_LOG_DIR].exists
    /\ rfs[ACTION_LOG_DIR].entries # {}

-----------------------------------------------------------------------------
(* Properties of the in-place streaming and of the key buffer              *)

InLoop == cpc \in {"enc_loop", "dec_loop"}

\* One iteration of the loop has read a block, passed it through the crypter
\* and written the output.
BlockDone == InLoop /\ cpc' = cpc /\ crypter'.n > crypter.n

\* C24: in encrypt_evidence and decrypt_evidence every block's cipher output
\* is written to exactly the byte range its input was read from: the read
\* starts at the offset the write will start at, every byte before that
\* offset has been read and replaced, no byte after it has been touched, so
\* each byte is read once and before it is overwritten; the length of the
\* file never changes.
C24_InPlaceStreaming ==
    [][ /\ BlockDone =>
            LET n == crypter'.n - crypter.n
                input == SubSeq(cfile, cursor + 1, cursor + n)
            IN  /\ cursor = position
                /\ crypter.n = position
                /\ cursor' = cursor + n
                /\ position' = position + n
                /\ SubSeq(cfile', position + 1, position + n) = UpdateOutput(crypter, input)
                /\ \A i \in 1..Len(cfile) :
                      (i <= position \/ i > position + n) => cfile'[i] = cfile[i]
        /\ Len(cfile') = Len(cfile)
        /\ (InLoop /\ cret' = "Ok") => position = Len(cfile)
      ]_vars

\* Witness of C24: decryption in the middle of a file of more than one
\* block: the blocks done hold the plaintext again, the rest is still
\* ciphertext.
C24_Witness ==
    /\ cpc = "dec_loop"
    /\ position > 0
    /\ position < Len(cfile)
    /\ cursor = position
    /\ SubSeq(cfile, 1, position) = SubSeq(original, 1, position)
    /\ SubSeq(cfile, position + 1, Len(cfile)) # SubSeq(original, position + 1, Len(cfile))

\* encrypt_evidence or decrypt_evidence has returned after key was
\* generated or unwrapped
ReturnedWithKey ==
    /\ cret \notin {"none", "running"}
    /\ sym_key # <<>>

\* C25: on every return of encrypt_evidence and decrypt_evidence after the
\* symmetric key was generated or unwrapped, success, I/O error and tag
\* mismatch alike, the key buffer has been overwritten with zeros.
C25_KeyZeroedOnReturn ==
    ReturnedWithKey => sym_key = Zeros(Len(sym_key))

-----------------------------------------------------------------------------
(* Properties of finish and of the source files of store                   *)

\* the first call of finish on a sink with archive enabled returns Ok
FinishReturnsOk ==
    /\ calls.finish = 0
    /\ calls'.finish = 1
    /\ last_call'.ret = "Ok"
    /\ fp.report_settings.zip_archive.enabled

\* C26: finish with archive enabled sweeps, closes the ZIP, encrypts and
\* writes the sidecar in this order: when it returns Ok every file that was
\* under loot_files/, directly under action_output/, and metadata.csv is an
\* entry of report.zip at its path relative to the report directory and no
\* longer exists on disk, the archive is closed, and what was encrypted is
\* the closed archive.
C26_SweptThenEncrypted ==
    [][ FinishReturnsOk =>
            /\ \A i \in 1..Len(SweepOrder) :
                  disk[SweepOrder[i]] # Absent
                      => /\ HasEntry(zip_entries', SweepName(SweepOrder[i]))
                         /\ disk'[SweepOrder[i]] = Absent
            /\ fp'.zip_writer = "none"
            /\ zip_layers' <= 1
      ]_vars

\* the argument of the store call that returns in this step
StoredPath == last_call'.path

\* the files of the model that lie outside the report directory
OutsideReport(p) == p \in {E1, MISSING}

\* the step removes the source file of the store call
SourceDeleted ==
    /\ disk[StoredPath] # Absent
    /\ disk'[StoredPath] = Absent

\* the step appends one ZIP entry that holds every byte of the source file
FullyWritten ==
    /\ Len(zip_entries') = Len(zip_entries) + 1
    /\ zip_entries'[Len(zip_entries')].content = disk[StoredPath]

ArchiveMode == fp.report_settings.zip_archive.enabled

-----------------------------------------------------------------------------
(* Properties of repeated runs of the unpacker                             *)

\* the step is one run of the unpacker
RunStep == Len(run_log') = Len(run_log) + 1

\* what the run of this step did
ThisRun == run_log'[Len(run_log')]

\* the first four bytes of the file are 50 4B 03 04
StartsWithLocalHeader(f) ==
    Len(f) >= 4 /\ <<f[1], f[2], f[3], f[4]>> = <<80, 75, 3, 4>>

\* C31: a run calls decrypt_evidence exactly when the report is archived,
\* the algorithm of the sidecar is not None and the first four bytes of
\* report.zip are not 50 4B 03 04; once a run has decrypted the archive
\* successfully no later run calls decrypt_evidence.
C31_DecryptsExactlyWhenNeeded ==
    [][ RunStep =>
            /\ (ThisRun.decrypt # NotCalled)
                  <=> ( /\ fp.report_settings.zip_archive.enabled
                        /\ sidecar.algorithm # "None"
                        /\ ~StartsWithLocalHeader(cfile) )
            /\ (\E i \in 1..Len(run_log) : run_log[i].decrypt = "Ok")
                  => ThisRun.decrypt = NotCalled
      ]_vars

\* a first run decrypted the encrypted archive and a second run skipped the
\* decryption and extracted it
C31_Witness ==
    /\ Len(run_log) = 2
    /\ sidecar.algorithm \notin {"None", "absent"}
    /\ run_log[1].decrypt = "Ok"
    /\ run_log[2] = RunRecord(NotCalled, TRUE)

\* C34: after a run has failed with a tag mismatch no later run on the same
\* report directory extracts the archive.
C34_TamperedNeverExtracted ==
    \A i, j \in 1..Len(run_log) :
        (i < j /\ run_log[i].decrypt = "Failed to finalize decryption")
            => ~run_log[j].extracted

-----------------------------------------------------------------------------
(* Properties of the type tag and the attributes of an action              *)

\* C32: for every workflow accepted by read_workflow_file the attributes of
\* each action are the variant of its type tag, so that the conversion the
\* engine makes in the arm of the type tag does not panic.
C32_TagAgreesWithAttributes ==
    vret = "Ok" =>
        \A j \in 1..Len(vrunner.actions) : Converts(vrunner.actions[j])

-----------------------------------------------------------------------------
(* Properties of the write after finalize                                  *)

\* the step is the end of encrypt_evidence and has appended bytes to the file
TrailingWritten ==
    /\ cpc = "enc_loop"
    /\ cpc' = "encrypted"
    /\ Len(cfile') > Len(cfile)

\* C33: when the finalization in encrypt_evidence yields count > 0 bytes, the
\* bytes appended to the file at the write position are the first count
\* bytes of the output of the finalization.
C33_FinalizedOutputAppended ==
    [][ TrailingWritten =>
            SubSeq(cfile', position + 1, Len(cfile'))
                = FinalizeOutput(crypter, Len(cfile') - position)
      ]_vars

-----------------------------------------------------------------------------
(* Properties of store without the archive                                 *)

\* C38: with archive disabled store never changes the content of its source
\* file, a file lying directly in the loot directory included.
C38_SourceUnchangedWithoutArchive ==
    [][ (StoreReturned /\ ~ArchiveMode) => disk'[StoredPath] = disk[StoredPath] ]_vars

-----------------------------------------------------------------------------
(* Properties of the sidecar finish writes                                 *)

\* report.zip is as writer.finish() left it
LeftInPlaintext == zip_layers' = 0

\* C39: whenever finish returns Ok with archive enabled the sidecar describes
\* report.zip: it is the default sidecar (algorithm None, no key, iv and
\* tag) exactly when report.zip was left in plaintext, and otherwise
\* decrypt_evidence with the private key of the sink's public key and this
\* sidecar succeeds.
C39_SidecarDescribesArchive ==
    [][ FinishReturnsOk =>
            /\ LeftInPlaintext <=> (sidecar' = DefaultEncryptionMeta)
            /\ ~LeftInPlaintext =>
                  DecryptEvidence(cfile', fp.public_key, sidecar').ret = "Ok"
      ]_vars

-----------------------------------------------------------------------------
(* Properties of the log files of parallel actions                         *)

\* workflow/src/runner.rs, lines 80-91, 129-138 and 176-186: the out_file
\* handed to the runner of a binary, command or terminal action. The names
\* of the model's actions are left as they are by sanitize_dirname.
out_file(action) ==
    IF action.attributes.variant \in {"binary", "command"}
    THEN [some |-> action.attributes.log_to_file, file |-> action.name \o ".log"]
    ELSE IF action.attributes.variant = "terminal"
    THEN [some |-> action.attributes.enable_transcript,
          file |-> action.name \o "_transcript.log"]
    ELSE [some |-> FALSE, file |-> ""]

\* the file under action_output/ the action of a future of the pool writes
LogFileOf(i) == out_file(runner.actions[FindAction(runner.actions, futures[i].item.action)])

\* C35: no two actions that are in flight at the same time write to the same
\* file under action_output/.
C35_DistinctLogFiles ==
    \A i, j \in 1..Len(futures) :
        ( /\ i # j
          /\ futures[i].status = "running"
          /\ futures[j].status = "running"
          /\ LogFileOf(i).some
          /\ LogFileOf(j).some )
            => LogFileOf(i).file # LogFileOf(j).file

-----------------------------------------------------------------------------
(* Properties of the drain phase                                           *)

\* the visits of parallel steps among the visits made
ParallelVisits(visits) ==
    { k \in 1..Len(visits) : runner.workflow[visits[k] + 1].parallel }

\* C36: when run returns Ok every visit of a parallel step has produced
\* exactly one completion and each completion was handled exactly once in
\* the drain phase, and the drain phase starts no action.
C36_DrainHandlesEachOnce ==
    [][ /\ pc' = "ok" =>
              /\ Len(futures') = Cardinality(ParallelVisits(visited'))
              /\ \A i \in 1..Len(futures') : futures'[i].status = "handled"
        /\ pc = "drain" => started' = started
      ]_vars

-----------------------------------------------------------------------------
(* Properties of the handler's loop                                        *)

\* C37: for every workflow file for which the handler created a report and
\* a sink, finish() is called on the sink exactly once, after run has
\* returned Ok or an error; and the failure of one workflow file does not
\* keep the handler from the remaining files.
C37_EverySinkFinishedOnce ==
    /\ \A i \in 1..Len(hfiles) :
          (hfiles[i].report /\ hfiles[i].sink)
              => /\ hfiles[i].finish_calls = 1
                 /\ hfiles[i].finish_after_run
                 /\ hfiles[i].run \in {"Ok", "Err"}
    /\ hpc # "loop" => \A i \in 1..Len(hfiles) : hfiles[i] # Pending

====
